---- MODULE Spec2Model ----
(***************************************************************************)
(* The keyframe timeline editor (AnimationBuilder) as a state machine.     *)
(*                                                                         *)
(* Numbers.  Times are whole milliseconds.  The reals of the interpolation *)
(* (local progress, eased progress, samples) are binary fixed-point values *)
(* with 24 fractional bits: the real v is the integer v * One.             *)
(* Opacities are kept in hundredths (the step of the opacity field), so an *)
(* opacity sample is hundredths * One.                                     *)
(*                                                                         *)
(* Scheduling.  The host is single-threaded: an input handler, the render  *)
(* it causes and the effects of that render form one step; so does a frame *)
(* callback with the render it causes.                                     *)
(***************************************************************************)
EXTENDS Integers, Sequences, FiniteSets, TLC

VARIABLES
    layers,            \* useState layers: sequence of layer records, paint order
    selectedKF,        \* useState selectedKF: NoSel or [layerId, kfId]
    nextId,            \* the next identifier mkId() hands out
    timelineDuration,  \* useState timelineDuration (ms)
    snapEnabled,       \* useState snapEnabled
    snapInterval,      \* useState snapInterval (ms)
    timelineZoom,      \* useState timelineZoom, in tenths
    dragState,         \* dragState.current: NoDrag or the drag record
    scrubState,        \* scrubState.current: NoScrub or the scrub record
    currentTime,       \* useState currentTime (ms)
    playing,           \* useState playing
    previewAsScroll,   \* useState previewAsScroll
    scrollY,           \* window.scrollY (px); Page.maxScroll is the scroll range
    rafPending,        \* TRUE while the frame callback of rafRef.current is scheduled
    start,             \* `start` of the playback loop that is scheduled
    now,               \* the wall clock, performance.now() (ms)
    painted,           \* what the last draw() put on the canvas
    resumed,           \* history: currentTime and clock at the play() of this run
    ops,               \* number of user inputs handled so far
    pointerX,          \* clientX of the last pointer event of a keyframe drag
    autoScrollRAF,     \* TRUE while the frame callback of autoScrollRAF.current is scheduled
    trackScrollLeft,   \* scrollLeft of each track's scroller, by layer id
    overlayDrag,       \* the closure of a layer overlay drag, or NoOverlayDrag
    presets,           \* useState presets: the value the initializer or savePreset produced
    editorTheme,       \* useState editorTheme
    localStorage,      \* the items stored under the presets key and the theme key
    storageFull,       \* TRUE while localStorage.setItem throws QuotaExceededError
    thrown,            \* the last error nothing caught: "none", "render" or "savePreset"
    util,              \* the last call of a function of animationUtils.ts, with its result
    imagesRef,         \* imagesRef.current: per layer id the source of the cached image, or NoImage
    imageLoads,        \* the image loads under way: [layerId, src] of each new Image()
    ticksPending,      \* how many frame callbacks of the playback loop are scheduled
    unmounted          \* the editor component has been torn down

vars == <<layers, selectedKF, nextId, timelineDuration, snapEnabled, snapInterval,
          timelineZoom, dragState, scrubState, currentTime, playing,
          previewAsScroll, scrollY, rafPending, start, now, painted, resumed, ops,
          pointerX, autoScrollRAF, trackScrollLeft, overlayDrag,
          presets, editorTheme, localStorage, storageFull, thrown, util,
          imagesRef, imageLoads, ticksPending, unmounted>>

----------------------------------------------------------------------------
(* Bounds of the model *)

MaxOps == 3          \* user inputs per run
MaxFrames == 5       \* frames the clock advances per run
MaxSampleKfs == 2    \* keyframes of a sampled layer
MaxSampleTime == 2   \* largest keyframe time of a sampled layer
MaxSegmentKfs == 3    \* keyframes of a layer of segments
MaxEasingKfs == 2     \* keyframes of a layer of eased segments
MaxSnapValue == 150  \* largest numerator passed to snap
MaxClampArg == 3     \* largest argument passed to clamp
BezierGrid == 16     \* inputs of the easing are the multiples of 1 / BezierGrid

\* Inputs the actions draw from
Durations == {500, 1000, 2000}          \* values typed into the duration field
SnapIntervals == {0, 50, 300}         \* values typed into the snap field
Zooms == {10, 20}                  \* positions of the zoom slider, in tenths
TimeFieldValues == {1500}          \* values typed into a keyframe's time field
PointerXs == {-40, 100, 400}       \* clientX of pointer events (px)
ScrollTops == {0, 300, 600}        \* window.scrollY (px)
FrameGaps == {400}                 \* wall-clock time between two frames (ms)
Page == [trackLeft |-> 0, trackWidth |-> 400, maxScroll |-> 600,
         previewWidth |-> 100, previewHeight |-> 50]
OverlayPoints == {<<60, 20>>, <<300, -90>>}   \* clientX, clientY over the preview (px)

----------------------------------------------------------------------------
(* Numeric utilities: animationUtils.ts *)

One == 2^24          \* the real 1 as a fixed-point value
Limb == 2^12         \* half of the fractional bits

Abs(a) == IF a < 0 THEN -a ELSE a
Min(a, b) == IF a < b THEN a ELSE b
Max(a, b) == IF a > b THEN a ELSE b

\* Math.round(n / d) for d > 0: the nearest integer, halves toward +infinity
RoundDiv(n, d) == (2 * n + d) \div (2 * d)

\* a * b on fixed-point values, a >= 0, b >= 0, by limbs so that no
\* intermediate product leaves 32 bits
MulFixPos(a, b) ==
    LET a1 == a \div Limb
        a0 == a % Limb
        b1 == b \div Limb
        b0 == b % Limb
    IN  a1 * b1 + ((a1 * b0 + a0 * b1) + ((a0 * b0) \div Limb)) \div Limb

MulFix(a, b) ==
    IF (a < 0) = (b < 0) THEN MulFixPos(Abs(a), Abs(b))
    ELSE -MulFixPos(Abs(a), Abs(b))

\* n / d as a fixed-point value, for 0 <= n <= d, d > 0
DivFix(n, d) ==
    LET q1 == (n * Limb) \div d
        r1 == (n * Limb) % d
    IN  q1 * Limb + (r1 * Limb) \div d

\* clamp without its upper bound
clampLowerOnly(v, a, b) == Max(a, v)

\* clamp(v, a, b) = Math.max(a, Math.min(b, v))
clamp(v, a, b) == Max(a, Min(b, v))

\* lerp(a, b, t) = a + (b - a) * t, for integers a, b and fixed-point t:
\* the fixed-point result
lerp(a, b, t) == a * One + (b - a) * t

\* snap with Math.floor in place of Math.round
snapFloor(n, d, interval) ==
    IF interval > 0 THEN [n |-> (n \div (d * interval)) * interval, d |-> 1]
    ELSE [n |-> n, d |-> d]

\* snap(value, interval) for the rational value n / d (d > 0)
snap(n, d, interval) ==
    IF interval > 0 THEN [n |-> RoundDiv(n, d * interval) * interval, d |-> 1]
    ELSE [n |-> n, d |-> d]

\* cubicBezierEasing(x1, y1, x2, y2)(x); the control points are in hundredths
Hundredths(h) == (h * One) \div 100
BezierIterations == 25

sampleCurve(a, b, c, t) == MulFix(MulFix(MulFix(a, t) + b, t) + c, t)

\* the search that lowers `high` whatever xEst is
RECURSIVE BezierSearchDownOnly(_, _, _, _, _, _, _)
BezierSearchDownOnly(ax, bx, cx, x, low, high, i) ==
    LET mid == (low + high) \div 2
        xEst == sampleCurve(ax, bx, cx, mid)
    IN  IF i = BezierIterations - 1 \/ Abs(xEst - x) <= One \div 1000000
        THEN [mid |-> mid, iterations |-> i + 1]
        ELSE BezierSearchDownOnly(ax, bx, cx, x, low, mid, i + 1)

\* the binary search for t with x(t) = x: the last mid and the number of
\* iterations of the loop that ran
RECURSIVE BezierSearch(_, _, _, _, _, _, _)
BezierSearch(ax, bx, cx, x, low, high, i) ==
    LET mid == (low + high) \div 2
        xEst == sampleCurve(ax, bx, cx, mid)
    IN  IF i = BezierIterations - 1 \/ Abs(xEst - x) <= One \div 1000000
        THEN [mid |-> mid, iterations |-> i + 1]
        ELSE IF xEst > x
             THEN BezierSearch(ax, bx, cx, x, low, mid, i + 1)
             ELSE BezierSearch(ax, bx, cx, x, mid, high, i + 1)

\* the search of cubicBezierEasing(x1, y1, x2, y2)(x)
BezierSearchOf(b, x) ==
    LET cx == 3 * Hundredths(b[1])
        bx == 3 * (Hundredths(b[3]) - Hundredths(b[1])) - cx
        ax == One - cx - bx
    IN  BezierSearch(ax, bx, cx, x, 0, One, 0)

cubicBezierEasing(b, x) ==
    LET cy == 3 * Hundredths(b[2])
        by == 3 * (Hundredths(b[4]) - Hundredths(b[2])) - cy
        ay == One - cy - by
    IN  sampleCurve(ay, by, cy, BezierSearchOf(b, x).mid)

\* no function of animationUtils.ts has been called
NoCall == [fn |-> "none", v |-> 0, d |-> 1, a |-> 0, b |-> 0,
           result |-> 0, resultDen |-> 1, iterations |-> 0]

----------------------------------------------------------------------------
(* Data model: KeyframePoint, LayerConfig, defaultLayer *)

NoEasing == "undefined"        \* a keyframe made by addKeyframe has no easing
NoBezier == <<>>               \* ... and no bezier
NoImage == ""                  \* image: null, and a cache entry that is null
EasingNames == {"linear", "ease", "ease-in", "ease-out"}

DefaultKfA == 0                \* time of the first default keyframe
DefaultKfB == 1000             \* time of the second default keyframe
DefaultTranslate == 40         \* translate of the first default keyframe
FullOpacity == 100             \* opacity 1, in hundredths
DefaultX == 50
DefaultY == 50

Keyframe(id, time, translate, opacity, easing, bezier) ==
    [id |-> id, time |-> time, translate |-> translate, opacity |-> opacity,
     easing |-> easing, bezier |-> bezier]

\* defaultLayer(): mkId() is called for the layer, then for its two keyframes
defaultLayer(id) ==
    [id |-> id, visible |-> TRUE, x |-> DefaultX, y |-> DefaultY, image |-> NoImage,
     keyframes |-> <<Keyframe(id + 1, DefaultKfA, DefaultTranslate, 0, "linear", NoBezier),
                     Keyframe(id + 2, DefaultKfB, 0, FullOpacity, "linear", NoBezier)>>]

IdsPerLayer == 1 + Len(defaultLayer(1).keyframes)

\* Array.prototype.sort((a,b) => a.time - b.time): stable, ascending by time
RECURSIVE InsertByTime(_, _)
InsertByTime(sorted, k) ==
    IF sorted = <<>> THEN <<k>>
    ELSE IF sorted[Len(sorted)].time <= k.time THEN Append(sorted, k)
    ELSE Append(InsertByTime(SubSeq(sorted, 1, Len(sorted) - 1), k), sorted[Len(sorted)])

RECURSIVE SortByTime(_)
SortByTime(kfs) ==
    IF kfs = <<>> THEN <<>>
    ELSE InsertByTime(SortByTime(SubSeq(kfs, 1, Len(kfs) - 1)), kfs[Len(kfs)])

IsSorted(kfs) == \A i \in 1..(Len(kfs) - 1) : kfs[i].time <= kfs[i + 1].time

----------------------------------------------------------------------------
(* Interpolation and compositing: draw(time) *)

\* the scan with `<` in place of `<=`: a keyframe at exactly t is not taken as prev
RECURSIVE ScanKeyframesStrictPrev(_, _, _, _, _)
ScanKeyframesStrictPrev(kfs, t, i, prev, next) ==
    IF i > Len(kfs) THEN [prev |-> prev, next |-> next]
    ELSE LET p == IF kfs[i].time < t THEN kfs[i] ELSE prev
         IN  IF kfs[i].time >= t THEN [prev |-> p, next |-> kfs[i]]
             ELSE ScanKeyframesStrictPrev(kfs, t, i + 1, p, next)

\* the scan without its break: next ends as the last keyframe at or after t
RECURSIVE ScanKeyframesNoBreak(_, _, _, _, _)
ScanKeyframesNoBreak(kfs, t, i, prev, next) ==
    IF i > Len(kfs) THEN [prev |-> prev, next |-> next]
    ELSE ScanKeyframesNoBreak(kfs, t, i + 1,
                              IF kfs[i].time <= t THEN kfs[i] ELSE prev,
                              IF kfs[i].time >= t THEN kfs[i] ELSE next)

\* the for loop of draw from index i on: prev is the last keyframe at or
\* before t seen so far, next the first keyframe at or after t (then break)
RECURSIVE ScanKeyframes(_, _, _, _, _)
ScanKeyframes(kfs, t, i, prev, next) ==
    IF i > Len(kfs) THEN [prev |-> prev, next |-> next]
    ELSE LET p == IF kfs[i].time <= t THEN kfs[i] ELSE prev
         IN  IF kfs[i].time >= t THEN [prev |-> p, next |-> kfs[i]]
             ELSE ScanKeyframes(kfs, t, i + 1, p, next)

\* clamp((time - prev.time) / span, 0, 1) with span = next.time - prev.time || 1
LocalT(prev, next, t) ==
    LET d == next.time - prev.time
        span == IF d = 0 THEN 1 ELSE d
        n == IF span > 0 THEN t - prev.time ELSE prev.time - t
        m == Abs(span)
    IN  IF n <= 0 THEN 0 ELSE IF n >= m THEN One ELSE DivFix(n, m)

\* easeT whose default case is the ease-in curve
easeTNeverLinear(easing, t) ==
    CASE easing = "ease-out" -> MulFix(t, 2 * One - t)
      [] easing = "ease" -> IF 2 * t < One THEN 2 * MulFix(t, t)
                            ELSE MulFix(4 * One - 2 * t, t) - One
      [] OTHER -> MulFix(t, t)

\* easeT of draw: the closed-form curves, linear for every other name
easeT(easing, t) ==
    CASE easing = "ease-in" -> MulFix(t, t)
      [] easing = "ease-out" -> MulFix(t, 2 * One - t)
      [] easing = "ease" -> IF 2 * t < One THEN 2 * MulFix(t, t)
                            ELSE MulFix(4 * One - 2 * t, t) - One
      [] OTHER -> t

\* the eased progress with a named easing taking precedence over bezier
EasedNameFirst(next, localT) ==
    IF next.easing \in EasingNames THEN easeT(next.easing, localT)
    ELSE IF next.bezier # NoBezier THEN cubicBezierEasing(next.bezier, localT)
    ELSE localT

\* the eased progress of a segment: next.bezier if present, else next.easing
Eased(next, localT) ==
    IF next.bezier # NoBezier THEN cubicBezierEasing(next.bezier, localT)
    ELSE easeT(next.easing, localT)

\* what draw() fills the layer's box with: the cached image if the layer has
\* an image and the cache holds a loaded one, the dark placeholder if it has
\* an image and the cache holds none, else the layer's colour and its label
LayerFill(layer) ==
    IF layer.image # NoImage
    THEN (IF imagesRef[layer.id] # NoImage THEN imagesRef[layer.id] ELSE "placeholder")
    ELSE "color"

\* the (translate, globalAlpha, fill) draw() uses for one layer at time t
SampleLayer(layer, t) ==
    LET kfs == layer.keyframes
        pn == ScanKeyframes(kfs, t, 1, kfs[1], kfs[Len(kfs)])
        eased == Eased(pn.next, LocalT(pn.prev, pn.next, t))
    IN  [id |-> layer.id,
         translate |-> lerp(pn.prev.translate, pn.next.translate, eased),
         alpha |-> clamp(lerp(pn.prev.opacity, pn.next.opacity, eased),
                         0, FullOpacity * One),
         fill |-> LayerFill(layer)]

\* layers.forEach that ends at the first layer without keyframes
RECURSIVE PaintLayersStopAtEmpty(_, _)
PaintLayersStopAtEmpty(ls, t) ==
    IF ls = <<>> THEN <<>>
    ELSE LET l == ls[1]
         IN  IF Len(l.keyframes) = 0 THEN <<>>
             ELSE IF ~l.visible THEN PaintLayersStopAtEmpty(Tail(ls), t)
             ELSE <<SampleLayer(l, t)>> \o PaintLayersStopAtEmpty(Tail(ls), t)

\* layers.forEach of draw: hidden layers and layers without keyframes paint nothing
RECURSIVE PaintLayers(_, _)
PaintLayers(ls, t) ==
    IF ls = <<>> THEN <<>>
    ELSE LET l == ls[1]
             rest == PaintLayers(Tail(ls), t)
         IN  IF ~l.visible \/ Len(l.keyframes) = 0 THEN rest
             ELSE <<SampleLayer(l, t)>> \o rest

draw(ls, t) == [time |-> t, samples |-> PaintLayers(ls, t)]

----------------------------------------------------------------------------
(* The exported code: the loop of the generated React component and drawAt *)
(* of the generated HTML preview, which are the same statements, run on the *)
(* payload { timelineDuration, layers }                                      *)

\* Math.max(0, Math.min(1, (t - prev.time) / span)), span = Math.max(1, next.time - prev.time)
ExportedLocalT(prev, next, t) ==
    LET span == Max(1, next.time - prev.time)
        n == t - prev.time
    IN  IF n <= 0 THEN 0 ELSE IF n >= span THEN One ELSE DivFix(n, span)

\* the (translate, globalAlpha) the exported code uses for one layer at time t
ExportedSample(layer, t) ==
    LET kfs == layer.keyframes
        pn == ScanKeyframes(kfs, t, 1, kfs[1], kfs[Len(kfs)])
        localT == ExportedLocalT(pn.prev, pn.next, t)
    IN  [id |-> layer.id,
         translate |-> lerp(pn.prev.translate, pn.next.translate, localT),
         alpha |-> lerp(pn.prev.opacity, pn.next.opacity, localT)]

\* animation.layers.forEach of the exported code
RECURSIVE drawAt(_, _)
drawAt(ls, t) ==
    IF ls = <<>> THEN <<>>
    ELSE LET l == ls[1]
             rest == drawAt(Tail(ls), t)
         IN  IF ~l.visible \/ Len(l.keyframes) = 0 THEN rest
             ELSE <<ExportedSample(l, t)>> \o rest

----------------------------------------------------------------------------
(* Editor state *)

NoSel == [layerId |-> 0, kfId |-> 0]
NoDrag == [layerId |-> 0, kfId |-> 0, offsetX |-> 0, rectLeft |-> 0, rectWidth10 |-> 0]
NoOverlayDrag == [layerId |-> 0, startX |-> 0, startY |-> 0, startLeft100 |-> 0,
                  startTop100 |-> 0]
NoScrub == [active |-> FALSE, rectLeft |-> 0, rectWidth10 |-> 0]
NotResumed == [p |-> 0, at |-> -1]

DefaultDuration == 2000
DefaultSnapInterval == 50
DefaultZoom == 10
NudgeStep == 10
NudgeShiftStep == 100
EdgeMargin == 48
ScrollSpeed == 12

InitialLayers == <<defaultLayer(1), defaultLayer(1 + IdsPerLayer)>>

\* the identifiers mkId() can have handed out
LayerIds == 1..(1 + (2 + MaxOps) * IdsPerLayer)

HasLayer(ls, id) == \E i \in 1..Len(ls) : ls[i].id = id
LayerOf(ls, id) == ls[CHOOSE i \in 1..Len(ls) : ls[i].id = id]
HasKf(l, kfId) == \E i \in 1..Len(l.keyframes) : l.keyframes[i].id = kfId
KfOf(l, kfId) == l.keyframes[CHOOSE i \in 1..Len(l.keyframes) : l.keyframes[i].id = kfId]

\* setLayer(id, patch) for the patches the model uses
setLayerVisible(ls, id, v) ==
    LET F(l) == IF l.id = id THEN [l EXCEPT !.visible = v] ELSE l
    IN  [i \in 1..Len(ls) |-> F(ls[i])]

\* addKeyframe(layerId, time): append, then sort
addKeyframe(ls, layerId, id, time) ==
    LET F(l) == IF l.id = layerId
                THEN [l EXCEPT !.keyframes =
                        SortByTime(Append(@, Keyframe(id, time, 0, FullOpacity,
                                                      NoEasing, NoBezier)))]
                ELSE l
    IN  [i \in 1..Len(ls) |-> F(ls[i])]

\* removeKeyframe(layerId, kfId): filter
removeKeyframe(ls, layerId, kfId) ==
    LET Keep(k) == k.id # kfId
        F(l) == IF l.id = layerId
                THEN [l EXCEPT !.keyframes = SelectSeq(@, Keep)]
                ELSE l
    IN  [i \in 1..Len(ls) |-> F(ls[i])]

\* updateKeyframe that adds the patch's time to the stored time
updateKeyframeAdding(ls, layerId, kfId, time) ==
    LET P(k) == IF k.id = kfId THEN [k EXCEPT !.time = @ + time] ELSE k
        F(l) == IF l.id = layerId
                THEN [l EXCEPT !.keyframes =
                        SortByTime([j \in 1..Len(l.keyframes) |-> P(l.keyframes[j])])]
                ELSE l
    IN  [i \in 1..Len(ls) |-> F(ls[i])]

\* updateKeyframe that keeps one keyframe per time: the patched keyframe
\* replaces the others of its time
updateKeyframeMerging(ls, layerId, kfId, time) ==
    LET P(k) == IF k.id = kfId THEN [k EXCEPT !.time = time] ELSE k
        Kept(k) == k.id = kfId \/ k.time # time
        F(l) == IF l.id = layerId
                THEN [l EXCEPT !.keyframes =
                        SortByTime(SelectSeq([j \in 1..Len(l.keyframes) |-> P(l.keyframes[j])],
                                             Kept))]
                ELSE l
    IN  [i \in 1..Len(ls) |-> F(ls[i])]

\* updateKeyframe that forgets to sort
updateKeyframeUnsorted(ls, layerId, kfId, time) ==
    LET P(k) == IF k.id = kfId THEN [k EXCEPT !.time = time] ELSE k
        F(l) == IF l.id = layerId
                THEN [l EXCEPT !.keyframes =
                        [j \in 1..Len(l.keyframes) |-> P(l.keyframes[j])]]
                ELSE l
    IN  [i \in 1..Len(ls) |-> F(ls[i])]

\* updateKeyframe(layerId, kfId, {time}): patch, then sort
updateKeyframe(ls, layerId, kfId, time) ==
    LET P(k) == IF k.id = kfId THEN [k EXCEPT !.time = time] ELSE k
        F(l) == IF l.id = layerId
                THEN [l EXCEPT !.keyframes =
                        SortByTime([j \in 1..Len(l.keyframes) |-> P(l.keyframes[j])])]
                ELSE l
    IN  [i \in 1..Len(ls) |-> F(ls[i])]

removeLayer(ls, id) ==
    LET Keep(l) == l.id # id
    IN  SelectSeq(ls, Keep)

\* clamp(x / rectWidth, 0, 1) * duration as the rational n / d;
\* rectWidth is rectWidth10 / 10
TrackTime(x, rectWidth10, duration) ==
    IF 10 * x <= 0 THEN [n |-> 0, d |-> 1]
    ELSE IF 10 * x >= rectWidth10 THEN [n |-> duration, d |-> 1]
    ELSE [n |-> 10 * x * duration, d |-> rectWidth10]

\* the time of a move that never snaps
DragTimeNoSnap(x, rectWidth10, duration, enabled, interval) ==
    LET t == TrackTime(x, rectWidth10, duration)
    IN  RoundDiv(t.n, t.d)

\* the time onTimelinePointerMove stores: snapped if snapping is on, rounded
DragTime(x, rectWidth10, duration, enabled, interval) ==
    LET t == TrackTime(x, rectWidth10, duration)
        s == IF enabled /\ interval > 0 THEN snap(t.n, t.d, interval) ELSE t
    IN  RoundDiv(s.n, s.d)

\* onScroll of the previewAsScroll effect: clamp(scrollTop / maxScroll, 0, 1) * duration
ScrollTime(top, duration) == (clamp(top, 0, Page.maxScroll) * duration) \div Page.maxScroll

----------------------------------------------------------------------------
(* Render and effects.  L, CT, D, P, PAS are the state after the handler's    *)
(* setState calls; layersSet says that setLayers was called (a new array, so  *)
(* every effect that depends on layers runs); direct is the canvas after the  *)
(* handler's own draw() calls.  The effects run in the order of the source:   *)
(* the previewAsScroll effect, the playback effect, the redraw effect; the    *)
(* setCurrentTime of the previewAsScroll effect causes a second render.  raf   *)
(* says whether a frame callback is scheduled when the handler returns.       *)

ScrollEffectRuns(layersSet, D, PAS) ==
    PAS /\ (~previewAsScroll \/ D # timelineDuration \/ layersSet)
PlaybackEffectRuns(layersSet, D, P) ==
    P # playing \/ layersSet \/ D # timelineDuration
RedrawEffectRuns(layersSet, CT) ==
    CT # currentTime \/ layersSet

\* currentTime after the effects
EffectTime(layersSet, CT, D, PAS) ==
    IF ScrollEffectRuns(layersSet, D, PAS) THEN ScrollTime(scrollY, D) ELSE CT

\* the playback effect with a cleanup that cancels nothing
PlaybackEffectNoCancel(CT, P) ==
    [rafPending |-> P \/ rafPending, start |-> IF P THEN now - CT ELSE start,
     cancelled |-> 0, scheduled |-> IF P THEN 1 ELSE 0]

\* the playback effect: its cleanup cancels the scheduled frame, its body
\* captures start and schedules the loop when playing
\* the playback effect whose clock starts at zero wherever the playhead is
PlaybackEffectFromZero(CT, P) ==
    [rafPending |-> P, start |-> IF P THEN now ELSE 0,
     cancelled |-> 1, scheduled |-> IF P THEN 1 ELSE 0]

\* cancelled and scheduled count the cancelAnimationFrame(rafRef.current) of
\* the cleanup and the requestAnimationFrame(loop) of the body
PlaybackEffect(CT, P) ==
    [rafPending |-> P, start |-> IF P THEN now - CT ELSE 0,
     cancelled |-> 1, scheduled |-> IF P THEN 1 ELSE 0]

\* the frame callbacks still scheduled when the handler returns: a tick
\* that does not schedule the loop again has used up its own
TicksLeft(raf) == IF raf = rafPending THEN ticksPending ELSE ticksPending - 1

EffectPlayback(layersSet, CT, D, P, raf) ==
    IF PlaybackEffectRuns(layersSet, D, P)
    THEN LET pe == PlaybackEffect(CT, P)
         IN  [rafPending |-> pe.rafPending, start |-> pe.start,
              ticks |-> Max(0, TicksLeft(raf) - pe.cancelled) + pe.scheduled]
    ELSE [rafPending |-> raf, start |-> start, ticks |-> TicksLeft(raf)]

\* the canvas when no effect draws: only what the handler drew itself
EffectPaintHandlerOnly(L, layersSet, CT, D, P, PAS, direct) == direct

\* the canvas after the effects
EffectPaint(L, layersSet, CT, D, P, PAS, direct) ==
    LET CT2 == EffectTime(layersSet, CT, D, PAS)
        p1 == IF ScrollEffectRuns(layersSet, D, PAS) THEN draw(L, CT2) ELSE direct
        p2 == IF ~P /\ (PlaybackEffectRuns(layersSet, D, P) \/ RedrawEffectRuns(layersSet, CT))
              THEN draw(L, CT) ELSE p1
    IN  IF ~P /\ CT2 # CT THEN draw(L, CT2) ELSE p2

\* the preload effect, which runs when layers is set: the cache entry of
\* every layer without an image is cleared at once ...
PreloadCache(L, layersSet) ==
    IF ~layersSet THEN imagesRef
    ELSE [id \in DOMAIN imagesRef |->
            IF \E i \in 1..Len(L) : L[i].id = id /\ L[i].image = NoImage
            THEN NoImage ELSE imagesRef[id]]

\* ... and a new Image() starts to load for every layer with an image
PreloadLoads(L, layersSet) ==
    IF ~layersSet THEN imageLoads
    ELSE imageLoads \cup {[layerId |-> L[i].id, src |-> L[i].image] :
                            i \in {j \in 1..Len(L) : L[j].image # NoImage}}

\* the state variables the render and its effects decide
Render(L, layersSet, CT, D, P, PAS, direct, raf) ==
    /\ ticksPending' = EffectPlayback(layersSet, CT, D, P, raf).ticks
    /\ UNCHANGED unmounted
    /\ imagesRef' = PreloadCache(L, layersSet)
    /\ imageLoads' = PreloadLoads(L, layersSet)
    /\ layers' = L
    /\ timelineDuration' = D
    /\ playing' = P
    /\ previewAsScroll' = PAS
    /\ currentTime' = EffectTime(layersSet, CT, D, PAS)
    /\ rafPending' = EffectPlayback(layersSet, CT, D, P, raf).rafPending
    /\ start' = EffectPlayback(layersSet, CT, D, P, raf).start
    /\ painted' = EffectPaint(L, layersSet, CT, D, P, PAS, direct)
    /\ resumed' = IF P /\ ~playing THEN [p |-> CT, at |-> now]
                  ELSE IF P THEN resumed ELSE NotResumed

\* an edit of the layers: setLayers(L) and nothing else
EditLayers(L) ==
    Render(L, TRUE, currentTime, timelineDuration, playing, previewAsScroll,
           painted, rafPending)

\* a change of the scalar state: no setLayers
SetState(CT, D, P, PAS, direct) ==
    Render(layers, FALSE, CT, D, P, PAS, direct, rafPending)

NoRender ==
    UNCHANGED <<layers, timelineDuration, playing, previewAsScroll, currentTime,
                rafPending, start, painted, resumed, imagesRef, imageLoads,
                ticksPending, unmounted>>

----------------------------------------------------------------------------
(* Persistent store.  A JSON value is told apart as far as the editor does: *)
(* an array with its items, or a value of another type.  A stored text is   *)
(* JSON syntax for a value, text that is not JSON, or the empty string.     *)

JsonArray(items) == [type |-> "array", items |-> items]
JsonOther(type) == [type |-> type, items |-> <<>>]

\* JSON.stringify
JSONstringify(v) == [syntax |-> "json", value |-> v]
GarbledText == [syntax |-> "garbled", value |-> JsonOther("undefined")]
EmptyText == [syntax |-> "empty", value |-> JsonOther("undefined")]

\* JSON.parse: the value, or a SyntaxError
JSONparse(text) ==
    IF text.syntax = "json"
    THEN [threw |-> FALSE, value |-> text.value]
    ELSE [threw |-> TRUE, value |-> JsonOther("undefined")]

\* localStorage.getItem: null (NoItem) or the stored text
NoItem == [present |-> FALSE, text |-> EmptyText]
Item(text) == [present |-> TRUE, text |-> text]

\* the initializer of presets: raw ? JSON.parse(raw) : [], [] on a throw
InitialPresets(store) ==
    LET raw == store.presets
    IN  IF ~raw.present \/ raw.text.syntax = "empty"
        THEN JsonArray(<<>>)
        ELSE IF JSONparse(raw.text).threw
             THEN JsonArray(<<>>)
             ELSE JSONparse(raw.text).value

Themes == {"light", "dark", "crimson"}

\* the initializer of editorTheme: getItem(...) || 'light'
InitialTheme(store) ==
    IF ~store.theme.present \/ store.theme.text = "" THEN "light" ELSE store.theme.text

\* presets.map(...) of the presets panel: a TypeError unless presets is an array
PresetsPanelThrows(p) == p.type # "array"

\* the effect that persists the theme: try { setItem(theme) } catch {}
PersistTheme(store, theme, full) ==
    IF full THEN store ELSE [store EXCEPT !.theme = Item(theme)]

\* the state after the component is constructed over the store `store`
Mounted(store, full) ==
    /\ presets = InitialPresets(store)
    /\ editorTheme = InitialTheme(store)
    /\ localStorage = PersistTheme(store, InitialTheme(store), full)
    /\ storageFull = full
    /\ thrown = IF PresetsPanelThrows(InitialPresets(store)) THEN "render" ELSE "none"

EmptyStore == [presets |-> NoItem, theme |-> NoItem]

\* a user input reaches a handler while the component is mounted
Input == thrown # "render" /\ ~unmounted /\ ops < MaxOps /\ ops' = ops + 1

Init ==
    /\ layers = InitialLayers
    /\ selectedKF = NoSel
    /\ nextId = 1 + 2 * IdsPerLayer
    /\ timelineDuration = DefaultDuration
    /\ snapEnabled = TRUE
    /\ snapInterval = DefaultSnapInterval
    /\ timelineZoom = DefaultZoom
    /\ dragState = NoDrag
    /\ scrubState = NoScrub
    /\ currentTime = 0
    /\ playing = FALSE
    /\ previewAsScroll = FALSE
    /\ scrollY = 0
    /\ rafPending = FALSE
    /\ start = 0
    /\ now = 0
    /\ painted = draw(InitialLayers, 0)
    /\ resumed = NotResumed
    /\ ops = 0
    /\ pointerX = 0
    /\ autoScrollRAF = FALSE
    /\ trackScrollLeft = [l \in LayerIds |-> 0]
    /\ overlayDrag = NoOverlayDrag
    /\ Mounted(EmptyStore, FALSE)
    /\ util = NoCall
    /\ imagesRef = [l \in LayerIds |-> NoImage]
    /\ imageLoads = {}
    /\ ticksPending = 0
    /\ unmounted = FALSE

----------------------------------------------------------------------------
(* Timeline editor: keyframe drag *)

\* scrollWidth - clientWidth of a track's scroller: the inner element is
\* timelineZoom * 100 % wide
MaxScrollLeft(zoom) == Max(0, (Page.trackWidth * (zoom - 10)) \div 10)

\* clientX of the marker of keyframe k of layer l: left: clamp(k.time / duration, 0, 1)
\* of the inner element, moved by the scroller's scrollLeft
MarkerX(l, k) ==
    Page.trackLeft
      + RoundDiv(clamp(k.time, 0, timelineDuration) * Page.trackWidth * timelineZoom,
                 10 * timelineDuration)
      - trackScrollLeft[l.id]

\* onTimelinePointerDown(e, layerId, kfId) on a keyframe marker; the first
\* pointer-down starts the auto-scroll loop
TimelinePointerDown(layerId, kfId) ==
    /\ Input
    /\ HasLayer(layers, layerId) /\ HasKf(LayerOf(layers, layerId), kfId)
    /\ LET x == MarkerX(LayerOf(layers, layerId), KfOf(LayerOf(layers, layerId), kfId))
       IN  /\ dragState' = [layerId |-> layerId, kfId |-> kfId,
                            offsetX |-> x - Page.trackLeft,
                            rectLeft |-> Page.trackLeft,
                            rectWidth10 |-> Page.trackWidth * timelineZoom]
           /\ pointerX' = x
    /\ selectedKF' = [layerId |-> layerId, kfId |-> kfId]
    /\ autoScrollRAF' = TRUE
    /\ NoRender
    /\ UNCHANGED <<util, presets, editorTheme, localStorage, storageFull, thrown,
                   trackScrollLeft, overlayDrag,
                   nextId, snapEnabled, snapInterval, timelineZoom, scrubState,
                   scrollY, now>>

\* onTimelinePointerMove(e) with e.clientX = x
TimelinePointerMove(x) ==
    /\ Input
    /\ dragState # NoDrag
    /\ EditLayers(updateKeyframe(layers, dragState.layerId, dragState.kfId,
                                 DragTime(x - dragState.rectLeft, dragState.rectWidth10,
                                          timelineDuration, snapEnabled, snapInterval)))
    /\ pointerX' = x
    /\ UNCHANGED <<util, presets, editorTheme, localStorage, storageFull, thrown,
                   autoScrollRAF, trackScrollLeft, overlayDrag,
                   selectedKF, nextId, snapEnabled, snapInterval, timelineZoom,
                   dragState, scrubState, scrollY, now>>

\* onTimelinePointerUp that leaves the auto-scroll frame scheduled
TimelinePointerUpNoCancel ==
    /\ Input
    /\ dragState # NoDrag
    /\ dragState' = NoDrag
    /\ NoRender
    /\ UNCHANGED <<util, presets, editorTheme, localStorage, storageFull, thrown,
                   pointerX, autoScrollRAF, trackScrollLeft, overlayDrag,
                   selectedKF, nextId, snapEnabled, snapInterval, timelineZoom,
                   scrubState, scrollY, now>>

\* onTimelinePointerUp(e)
TimelinePointerUp ==
    /\ Input
    /\ dragState # NoDrag
    /\ dragState' = NoDrag
    /\ autoScrollRAF' = FALSE
    /\ NoRender
    /\ UNCHANGED <<util, presets, editorTheme, localStorage, storageFull, thrown,
                   pointerX, trackScrollLeft, overlayDrag,
                   selectedKF, nextId, snapEnabled, snapInterval, timelineZoom,
                   scrubState, scrollY, now>>

\* pointercancel or lostpointercapture during a keyframe drag: the track and
\* the markers have no handler for either event
TimelinePointerCancel ==
    /\ Input
    /\ dragState # NoDrag
    /\ NoRender
    /\ UNCHANGED <<util, presets, editorTheme, localStorage, storageFull, thrown,
                   pointerX, autoScrollRAF, trackScrollLeft, overlayDrag,
                   selectedKF, nextId, snapEnabled, snapInterval, timelineZoom,
                   dragState, scrubState, scrollY, now>>

\* the scroller's scrollLeft after one frame of the auto-scroll loop.  No
\* event is being dispatched while a frame callback runs, so window.event is
\* undefined, cx is 0 and clientX is the fallback rectLeft + offsetX.
AutoScrolled(left) ==
    LET clientX == dragState.rectLeft + dragState.offsetX
    IN  IF clientX - Page.trackLeft < EdgeMargin
        THEN Max(0, left - ScrollSpeed)
        ELSE IF (Page.trackLeft + Page.trackWidth) - clientX < EdgeMargin
        THEN Min(MaxScrollLeft(timelineZoom), left + ScrollSpeed)
        ELSE left

\* loop(): one frame of the auto-scroll loop of onTimelinePointerDown
AutoScrollFrame ==
    /\ autoScrollRAF
    /\ IF dragState = NoDrag
       THEN autoScrollRAF' = FALSE /\ UNCHANGED trackScrollLeft
       ELSE /\ autoScrollRAF' = TRUE
            /\ trackScrollLeft' =
                  [trackScrollLeft EXCEPT ![dragState.layerId] = AutoScrolled(@)]
    /\ NoRender
    /\ UNCHANGED <<util, presets, editorTheme, localStorage, storageFull, thrown,
                   pointerX, overlayDrag,
                   selectedKF, nextId, snapEnabled, snapInterval, timelineZoom,
                   dragState, scrubState, scrollY, now, ops>>

----------------------------------------------------------------------------
(* Layer overlays of the preview *)

\* setLayer(id, {x, y})
setLayerXY(ls, id, x, y) ==
    LET F(l) == IF l.id = id THEN [l EXCEPT !.x = x, !.y = y] ELSE l
    IN  [i \in 1..Len(ls) |-> F(ls[i])]

\* nx of onMove without Math.max / Math.min
OverlayXUnclamped(pt) ==
    (overlayDrag.startLeft100 + 100 * (pt[1] - overlayDrag.startX)) \div Page.previewWidth

\* onMove of an overlay drag: the x, y (percent) for the pointer at pt;
\* startLeft100 and startTop100 are startLeft and startTop times 100
OverlayX(pt) ==
    Max(0, Min(100, (overlayDrag.startLeft100 + 100 * (pt[1] - overlayDrag.startX))
                       \div Page.previewWidth))
OverlayY(pt) ==
    Max(0, Min(100, (overlayDrag.startTop100 + 100 * (pt[2] - overlayDrag.startY))
                       \div Page.previewHeight))

\* onPointerDown of the overlay of a layer, pressed at its top-left corner
LayerPointerDown(layerId) ==
    /\ Input
    /\ HasLayer(layers, layerId)
    /\ overlayDrag = NoOverlayDrag
    /\ LET l == LayerOf(layers, layerId)
       IN  overlayDrag' = [layerId |-> layerId,
                           startX |-> (l.x * Page.previewWidth) \div 100,
                           startY |-> (l.y * Page.previewHeight) \div 100,
                           startLeft100 |-> l.x * Page.previewWidth,
                           startTop100 |-> l.y * Page.previewHeight]
    /\ NoRender
    /\ UNCHANGED <<util, presets, editorTheme, localStorage, storageFull, thrown,
                   pointerX, autoScrollRAF, trackScrollLeft,
                   selectedKF, nextId, snapEnabled, snapInterval, timelineZoom,
                   dragState, scrubState, scrollY, now>>

\* onMove(ev), the window pointermove listener of the overlay drag
LayerPointerMove(pt) ==
    /\ Input
    /\ overlayDrag # NoOverlayDrag
    /\ EditLayers(setLayerXY(layers, overlayDrag.layerId, OverlayX(pt), OverlayY(pt)))
    /\ UNCHANGED <<util, presets, editorTheme, localStorage, storageFull, thrown,
                   pointerX, autoScrollRAF, trackScrollLeft, overlayDrag,
                   selectedKF, nextId, snapEnabled, snapInterval, timelineZoom,
                   dragState, scrubState, scrollY, now>>

\* onUp, the window pointerup listener of the overlay drag
LayerPointerUp ==
    /\ Input
    /\ overlayDrag # NoOverlayDrag
    /\ overlayDrag' = NoOverlayDrag
    /\ NoRender
    /\ UNCHANGED <<util, presets, editorTheme, localStorage, storageFull, thrown,
                   pointerX, autoScrollRAF, trackScrollLeft,
                   selectedKF, nextId, snapEnabled, snapInterval, timelineZoom,
                   dragState, scrubState, scrollY, now>>

----------------------------------------------------------------------------
(* Timeline editor: keyboard *)

SelectionExists ==
    /\ selectedKF # NoSel
    /\ HasLayer(layers, selectedKF.layerId)
    /\ HasKf(LayerOf(layers, selectedKF.layerId), selectedKF.kfId)

\* the time an arrow key gives the keyframe whose time is `time`
NudgedTime(time, right, shift) ==
    LET delta == IF shift THEN NudgeShiftStep ELSE NudgeStep
    IN  IF right THEN Min(timelineDuration, time + delta) ELSE Max(0, time - delta)

\* one ArrowLeft / ArrowRight key press.  With the focus on the marker of the
\* selected keyframe (onMarker) the marker's onKeyDown runs first and the
\* event then reaches the window listener.  Whether the render and its effects
\* are committed between the two (committed) depends on the React root the
\* page is mounted with: if they are, the window listener is the re-subscribed
\* one and reads the time the marker's handler has just stored; if not, both
\* read the time of the same render.
ArrowKey(right, shift, onMarker, committed) ==
    /\ Input
    /\ SelectionExists
    /\ LET k == KfOf(LayerOf(layers, selectedKF.layerId), selectedKF.kfId)
           nt == NudgedTime(k.time, right, shift)
           afterMarker == IF onMarker
                          THEN updateKeyframe(layers, selectedKF.layerId, k.id, nt)
                          ELSE layers
           seen == IF committed THEN afterMarker ELSE layers
           kw == KfOf(LayerOf(seen, selectedKF.layerId), selectedKF.kfId)
           ntw == NudgedTime(kw.time, right, shift)
       IN  EditLayers(updateKeyframe(afterMarker, selectedKF.layerId, k.id, ntw))
    /\ UNCHANGED <<util, presets, editorTheme, localStorage, storageFull, thrown,
                   pointerX, autoScrollRAF, trackScrollLeft, overlayDrag,
                   selectedKF, nextId, snapEnabled, snapInterval, timelineZoom,
                   dragState, scrubState, scrollY, now>>

\* the 'A' key: addKeyframe(selectedKF.layerId, Math.round(currentTime))
AddKey ==
    /\ Input
    /\ selectedKF # NoSel
    /\ EditLayers(addKeyframe(layers, selectedKF.layerId, nextId, currentTime))
    /\ nextId' = IF HasLayer(layers, selectedKF.layerId) THEN nextId + 1 ELSE nextId
    /\ UNCHANGED <<util, presets, editorTheme, localStorage, storageFull, thrown,
                   pointerX, autoScrollRAF, trackScrollLeft, overlayDrag,
                   selectedKF, snapEnabled, snapInterval, timelineZoom,
                   dragState, scrubState, scrollY, now>>

\* Delete / Backspace: removeKeyframe of the selection, setSelectedKF(null)
DeleteKey ==
    /\ Input
    /\ selectedKF # NoSel
    /\ EditLayers(removeKeyframe(layers, selectedKF.layerId, selectedKF.kfId))
    /\ selectedKF' = NoSel
    /\ UNCHANGED <<util, presets, editorTheme, localStorage, storageFull, thrown,
                   pointerX, autoScrollRAF, trackScrollLeft, overlayDrag,
                   nextId, snapEnabled, snapInterval, timelineZoom,
                   dragState, scrubState, scrollY, now>>

----------------------------------------------------------------------------
(* Layers panel *)

\* the time field of a keyframe row
PanelTimeField(layerId, kfId, time) ==
    /\ Input
    /\ HasLayer(layers, layerId) /\ HasKf(LayerOf(layers, layerId), kfId)
    /\ EditLayers(updateKeyframe(layers, layerId, kfId, time))
    /\ UNCHANGED <<util, presets, editorTheme, localStorage, storageFull, thrown,
                   pointerX, autoScrollRAF, trackScrollLeft, overlayDrag,
                   selectedKF, nextId, snapEnabled, snapInterval, timelineZoom,
                   dragState, scrubState, scrollY, now>>

\* the remove button of a keyframe row
PanelRemoveKeyframe(layerId, kfId) ==
    /\ Input
    /\ HasLayer(layers, layerId) /\ HasKf(LayerOf(layers, layerId), kfId)
    /\ EditLayers(removeKeyframe(layers, layerId, kfId))
    /\ UNCHANGED <<util, presets, editorTheme, localStorage, storageFull, thrown,
                   pointerX, autoScrollRAF, trackScrollLeft, overlayDrag,
                   selectedKF, nextId, snapEnabled, snapInterval, timelineZoom,
                   dragState, scrubState, scrollY, now>>

\* "Add Keyframe": addKeyframe(layer.id) at Math.round(timelineDuration / 2)
PanelAddKeyframe(layerId) ==
    /\ Input
    /\ HasLayer(layers, layerId)
    /\ EditLayers(addKeyframe(layers, layerId, nextId, RoundDiv(timelineDuration, 2)))
    /\ nextId' = nextId + 1
    /\ UNCHANGED <<util, presets, editorTheme, localStorage, storageFull, thrown,
                   pointerX, autoScrollRAF, trackScrollLeft, overlayDrag,
                   selectedKF, snapEnabled, snapInterval, timelineZoom,
                   dragState, scrubState, scrollY, now>>

\* the Visible checkbox of a layer
ToggleVisible(layerId) ==
    /\ Input
    /\ HasLayer(layers, layerId)
    /\ EditLayers(setLayerVisible(layers, layerId, ~LayerOf(layers, layerId).visible))
    /\ UNCHANGED <<util, presets, editorTheme, localStorage, storageFull, thrown,
                   pointerX, autoScrollRAF, trackScrollLeft, overlayDrag,
                   selectedKF, nextId, snapEnabled, snapInterval, timelineZoom,
                   dragState, scrubState, scrollY, now>>

\* "Add": addLayer
AddLayer ==
    /\ Input
    /\ EditLayers(Append(layers, defaultLayer(nextId)))
    /\ nextId' = nextId + IdsPerLayer
    /\ UNCHANGED <<util, presets, editorTheme, localStorage, storageFull, thrown,
                   pointerX, autoScrollRAF, trackScrollLeft, overlayDrag,
                   selectedKF, snapEnabled, snapInterval, timelineZoom,
                   dragState, scrubState, scrollY, now>>

\* "Delete" of a layer: removeLayer
RemoveLayer(layerId) ==
    /\ Input
    /\ HasLayer(layers, layerId)
    /\ EditLayers(removeLayer(layers, layerId))
    /\ UNCHANGED <<util, presets, editorTheme, localStorage, storageFull, thrown,
                   pointerX, autoScrollRAF, trackScrollLeft, overlayDrag,
                   selectedKF, nextId, snapEnabled, snapInterval, timelineZoom,
                   dragState, scrubState, scrollY, now>>

\* "Reset": two fresh default layers
Reset ==
    /\ Input
    /\ EditLayers(<<defaultLayer(nextId), defaultLayer(nextId + IdsPerLayer)>>)
    /\ nextId' = nextId + 2 * IdsPerLayer
    /\ UNCHANGED <<util, presets, editorTheme, localStorage, storageFull, thrown,
                   pointerX, autoScrollRAF, trackScrollLeft, overlayDrag,
                   selectedKF, snapEnabled, snapInterval, timelineZoom,
                   dragState, scrubState, scrollY, now>>

----------------------------------------------------------------------------
(* Timeline settings *)

SetDuration(d) ==
    /\ Input
    /\ d # timelineDuration
    /\ SetState(currentTime, d, playing, previewAsScroll, painted)
    /\ UNCHANGED <<util, presets, editorTheme, localStorage, storageFull, thrown,
                   pointerX, autoScrollRAF, trackScrollLeft, overlayDrag,
                   selectedKF, nextId, snapEnabled, snapInterval, timelineZoom,
                   dragState, scrubState, scrollY, now>>

SetSnapEnabled ==
    /\ Input
    /\ snapEnabled' = ~snapEnabled
    /\ NoRender
    /\ UNCHANGED <<util, presets, editorTheme, localStorage, storageFull, thrown,
                   pointerX, autoScrollRAF, trackScrollLeft, overlayDrag,
                   selectedKF, nextId, snapInterval, timelineZoom,
                   dragState, scrubState, scrollY, now>>

SetSnapInterval(i) ==
    /\ Input
    /\ i # snapInterval
    /\ snapInterval' = i
    /\ NoRender
    /\ UNCHANGED <<util, presets, editorTheme, localStorage, storageFull, thrown,
                   pointerX, autoScrollRAF, trackScrollLeft, overlayDrag,
                   selectedKF, nextId, snapEnabled, timelineZoom,
                   dragState, scrubState, scrollY, now>>

SetZoom(z) ==
    /\ Input
    /\ z # timelineZoom
    /\ timelineZoom' = z
    /\ trackScrollLeft' = [l \in LayerIds |-> Min(trackScrollLeft[l], MaxScrollLeft(z))]
    /\ NoRender
    /\ UNCHANGED <<util, presets, editorTheme, localStorage, storageFull, thrown,
                   pointerX, autoScrollRAF, overlayDrag,
                   selectedKF, nextId, snapEnabled, snapInterval,
                   dragState, scrubState, scrollY, now>>

----------------------------------------------------------------------------
(* Timeline editor: scrubbing *)

\* the scrub time put through snap like a dragged keyframe's time
ScrubTimeSnapped(x, rectWidth10) ==
    DragTime(x, rectWidth10, timelineDuration, snapEnabled, snapInterval)

\* the time a scrub handler stores for offset x in a track rectWidth10 / 10
\* wide; the pointer positions of the model give whole milliseconds
ScrubTime(x, rectWidth10) ==
    LET t == TrackTime(x, rectWidth10, timelineDuration)
    IN  t.n \div t.d

ScrubExact(x, rectWidth10) ==
    LET t == TrackTime(x, rectWidth10, timelineDuration)
    IN  t.n % t.d = 0

\* onScrubPointerDown: the pointer is on the scrubber, which is drawn at
\* clamp(currentTime / timelineDuration, 0, 1) of the inner track
ScrubPointerDown ==
    /\ Input
    /\ scrubState' = [active |-> TRUE, rectLeft |-> Page.trackLeft,
                      rectWidth10 |-> Page.trackWidth * timelineZoom]
    /\ LET t == clamp(currentTime, 0, timelineDuration)
       IN  SetState(t, timelineDuration, playing, previewAsScroll, draw(layers, t))
    /\ UNCHANGED <<util, presets, editorTheme, localStorage, storageFull, thrown,
                   pointerX, autoScrollRAF, trackScrollLeft, overlayDrag,
                   selectedKF, nextId, snapEnabled, snapInterval, timelineZoom,
                   dragState, scrollY, now>>

\* onScrubPointerMove with e.clientX = x
ScrubPointerMove(x) ==
    /\ Input
    /\ scrubState.active
    /\ ScrubExact(x - scrubState.rectLeft, scrubState.rectWidth10)
    /\ LET t == ScrubTime(x - scrubState.rectLeft, scrubState.rectWidth10)
       IN  SetState(t, timelineDuration, playing, previewAsScroll, draw(layers, t))
    /\ UNCHANGED <<util, presets, editorTheme, localStorage, storageFull, thrown,
                   pointerX, autoScrollRAF, trackScrollLeft, overlayDrag,
                   selectedKF, nextId, snapEnabled, snapInterval, timelineZoom,
                   dragState, scrubState, scrollY, now>>

\* onScrubPointerUp
ScrubPointerUp ==
    /\ Input
    /\ scrubState.active
    /\ scrubState' = NoScrub
    /\ NoRender
    /\ UNCHANGED <<util, presets, editorTheme, localStorage, storageFull, thrown,
                   pointerX, autoScrollRAF, trackScrollLeft, overlayDrag,
                   selectedKF, nextId, snapEnabled, snapInterval, timelineZoom,
                   dragState, scrollY, now>>

----------------------------------------------------------------------------
(* Two pointers.  The scrubber is a descendant of the .timeline-track element, *)
(* so a pointer event dispatched to the scrubber runs the scrubber's handler  *)
(* and then, bubbling, the handler of the track for the same event type; both *)
(* run in one batch, followed by one render.                                  *)

\* pointermove of the scrubbing pointer at clientX = x: onScrubPointerMove,
\* then onTimelinePointerMove of the enclosing track
ScrubberPointerMove(x) ==
    /\ Input
    /\ scrubState.active
    /\ ScrubExact(x - scrubState.rectLeft, scrubState.rectWidth10)
    /\ LET t == ScrubTime(x - scrubState.rectLeft, scrubState.rectWidth10)
           L == IF dragState = NoDrag THEN layers
                ELSE updateKeyframe(layers, dragState.layerId, dragState.kfId,
                                    DragTime(x - dragState.rectLeft, dragState.rectWidth10,
                                             timelineDuration, snapEnabled, snapInterval))
       IN  Render(L, dragState # NoDrag, t, timelineDuration, playing, previewAsScroll,
                  draw(layers, t), rafPending)
    /\ pointerX' = IF dragState = NoDrag THEN pointerX ELSE x
    /\ UNCHANGED <<util, presets, editorTheme, localStorage, storageFull, thrown,
                   autoScrollRAF, trackScrollLeft, overlayDrag,
                   selectedKF, nextId, snapEnabled, snapInterval, timelineZoom,
                   dragState, scrubState, scrollY, now>>

\* pointerup of the scrubbing pointer: onScrubPointerUp, then
\* onTimelinePointerUp of the enclosing track
ScrubberPointerUp ==
    /\ Input
    /\ scrubState.active
    /\ scrubState' = NoScrub
    /\ dragState' = NoDrag
    /\ autoScrollRAF' = IF dragState = NoDrag THEN autoScrollRAF ELSE FALSE
    /\ NoRender
    /\ UNCHANGED <<util, presets, editorTheme, localStorage, storageFull, thrown,
                   pointerX, trackScrollLeft, overlayDrag,
                   selectedKF, nextId, snapEnabled, snapInterval, timelineZoom,
                   scrollY, now>>

----------------------------------------------------------------------------
(* Layer images *)

ImageSources == {"a.png", "b.png"}     \* data URLs the file reader produces

\* setLayer(layerId, { image })
setLayerImage(ls, id, src) ==
    [i \in 1..Len(ls) |-> IF ls[i].id = id THEN [ls[i] EXCEPT !.image = src] ELSE ls[i]]

\* setLayerImageFile: reader.onload stores the data URL in the layer
SetLayerImage(layerId, src) ==
    /\ Input
    /\ HasLayer(layers, layerId)
    /\ EditLayers(setLayerImage(layers, layerId, src))
    /\ UNCHANGED <<util, presets, editorTheme, localStorage, storageFull, thrown,
                   pointerX, autoScrollRAF, trackScrollLeft, overlayDrag,
                   selectedKF, nextId, snapEnabled, snapInterval, timelineZoom,
                   dragState, scrubState, scrollY, now>>

\* img.onload of a load the preload effect started: the image is cached
\* under the layer's id, whatever the layer's image is by now
ImageLoaded(load) ==
    /\ load \in imageLoads
    /\ imagesRef' = [imagesRef EXCEPT ![load.layerId] = load.src]
    /\ imageLoads' = imageLoads \ {load}
    /\ UNCHANGED <<layers, timelineDuration, playing, previewAsScroll, currentTime,
                   rafPending, start, painted, resumed, ticksPending, unmounted,
                   util, presets, editorTheme, localStorage, storageFull, thrown,
                   pointerX, autoScrollRAF, trackScrollLeft, overlayDrag,
                   selectedKF, nextId, snapEnabled, snapInterval, timelineZoom,
                   dragState, scrubState, scrollY, now, ops>>

\* img.onerror of a load the preload effect started: the cache entry is cleared
ImageFailed(load) ==
    /\ load \in imageLoads
    /\ imagesRef' = [imagesRef EXCEPT ![load.layerId] = NoImage]
    /\ imageLoads' = imageLoads \ {load}
    /\ UNCHANGED <<layers, timelineDuration, playing, previewAsScroll, currentTime,
                   rafPending, start, painted, resumed, ticksPending, unmounted,
                   util, presets, editorTheme, localStorage, storageFull, thrown,
                   pointerX, autoScrollRAF, trackScrollLeft, overlayDrag,
                   selectedKF, nextId, snapEnabled, snapInterval, timelineZoom,
                   dragState, scrubState, scrollY, now, ops>>

----------------------------------------------------------------------------
(* Preview as scroll *)

\* the "Preview as scroll" checkbox
TogglePreviewAsScroll ==
    /\ Input
    /\ SetState(currentTime, timelineDuration, playing, ~previewAsScroll, painted)
    /\ UNCHANGED <<util, presets, editorTheme, localStorage, storageFull, thrown,
                   pointerX, autoScrollRAF, trackScrollLeft, overlayDrag,
                   selectedKF, nextId, snapEnabled, snapInterval, timelineZoom,
                   dragState, scrubState, scrollY, now>>

\* the window is scrolled to `top`; onScroll listens while previewAsScroll
WindowScroll(top) ==
    /\ Input
    /\ top # scrollY
    /\ scrollY' = top
    /\ IF previewAsScroll
       THEN LET t == ScrollTime(top, timelineDuration)
            IN  SetState(t, timelineDuration, playing, previewAsScroll, draw(layers, t))
       ELSE NoRender
    /\ UNCHANGED <<util, presets, editorTheme, localStorage, storageFull, thrown,
                   pointerX, autoScrollRAF, trackScrollLeft, overlayDrag,
                   selectedKF, nextId, snapEnabled, snapInterval, timelineZoom,
                   dragState, scrubState, now>>

----------------------------------------------------------------------------
(* Playback controller *)

\* play(): the button is disabled while playing
Play ==
    /\ Input
    /\ ~playing
    /\ SetState(currentTime, timelineDuration, TRUE, previewAsScroll, painted)
    /\ UNCHANGED <<util, presets, editorTheme, localStorage, storageFull, thrown,
                   pointerX, autoScrollRAF, trackScrollLeft, overlayDrag,
                   selectedKF, nextId, snapEnabled, snapInterval, timelineZoom,
                   dragState, scrubState, scrollY, now>>

\* pause(): the button is disabled unless playing
Pause ==
    /\ Input
    /\ playing
    /\ SetState(currentTime, timelineDuration, FALSE, previewAsScroll, painted)
    /\ UNCHANGED <<util, presets, editorTheme, localStorage, storageFull, thrown,
                   pointerX, autoScrollRAF, trackScrollLeft, overlayDrag,
                   selectedKF, nextId, snapEnabled, snapInterval, timelineZoom,
                   dragState, scrubState, scrollY, now>>

\* stop() that only stops the clock
StopKeepsTime ==
    /\ Input
    /\ SetState(currentTime, timelineDuration, FALSE, previewAsScroll, painted)
    /\ UNCHANGED <<util, presets, editorTheme, localStorage, storageFull, thrown,
                   pointerX, autoScrollRAF, trackScrollLeft, overlayDrag,
                   selectedKF, nextId, snapEnabled, snapInterval, timelineZoom,
                   dragState, scrubState, scrollY, now>>

\* stop(): setPlaying(false); setCurrentTime(0); draw(0)
Stop ==
    /\ Input
    /\ SetState(0, timelineDuration, FALSE, previewAsScroll, draw(layers, 0))
    /\ UNCHANGED <<util, presets, editorTheme, localStorage, storageFull, thrown,
                   pointerX, autoScrollRAF, trackScrollLeft, overlayDrag,
                   selectedKF, nextId, snapEnabled, snapInterval, timelineZoom,
                   dragState, scrubState, scrollY, now>>

\* the elapsed time `loop` computes
Elapsed == now - start

\* loop(now) without the end-of-timeline branch
PlaybackTickNoEnd ==
    /\ rafPending
    /\ Render(layers, FALSE, Elapsed, timelineDuration, playing,
              previewAsScroll, draw(layers, Elapsed), TRUE)
    /\ UNCHANGED <<util, presets, editorTheme, localStorage, storageFull, thrown,
                   pointerX, autoScrollRAF, trackScrollLeft, overlayDrag,
                   selectedKF, nextId, snapEnabled, snapInterval, timelineZoom,
                   dragState, scrubState, scrollY, now, ops>>

\* loop(now): the frame callback of the playback effect
PlaybackTick ==
    /\ rafPending
    /\ IF Elapsed >= timelineDuration
       THEN Render(layers, FALSE, timelineDuration, timelineDuration, FALSE,
                   previewAsScroll, painted, FALSE)
       ELSE Render(layers, FALSE, Elapsed, timelineDuration, playing,
                   previewAsScroll, draw(layers, Elapsed), TRUE)
    /\ UNCHANGED <<util, presets, editorTheme, localStorage, storageFull, thrown,
                   pointerX, autoScrollRAF, trackScrollLeft, overlayDrag,
                   selectedKF, nextId, snapEnabled, snapInterval, timelineZoom,
                   dragState, scrubState, scrollY, now, ops>>

\* the wall clock moves on to the next frame
Advance(gap) ==
    /\ now + gap <= MaxFrames * gap
    /\ now' = now + gap
    /\ NoRender
    /\ UNCHANGED <<util, presets, editorTheme, localStorage, storageFull, thrown,
                   pointerX, autoScrollRAF, trackScrollLeft, overlayDrag,
                   selectedKF, nextId, snapEnabled, snapInterval, timelineZoom,
                   dragState, scrubState, scrollY, ops>>

\* the wall clock moves on to the next frame while the playback loop is
\* scheduled and has not yet seen the end of the timeline
AdvanceFrame(gap) ==
    /\ rafPending
    /\ Elapsed < timelineDuration
    /\ now' = now + gap
    /\ NoRender
    /\ UNCHANGED <<util, presets, editorTheme, localStorage, storageFull, thrown,
                   pointerX, autoScrollRAF, trackScrollLeft, overlayDrag,
                   selectedKF, nextId, snapEnabled, snapInterval, timelineZoom,
                   dragState, scrubState, scrollY, ops>>

----------------------------------------------------------------------------
(* Presets and theme *)

PresetNames == {"a", "b"}          \* names typed into the preset name field

\* the Save button: savePreset(name) appends { name, config: layers } to the
\* presets, and writes them to the store; setItem is not guarded
savePreset(name) ==
    /\ Input
    /\ presets' = JsonArray(Append(presets.items, [name |-> name, config |-> layers]))
    /\ IF storageFull
       THEN localStorage' = localStorage /\ thrown' = "savePreset"
       ELSE /\ localStorage' = [localStorage EXCEPT !.presets = Item(JSONstringify(presets'))]
            /\ thrown' = thrown
    /\ NoRender
    /\ UNCHANGED <<util, editorTheme, storageFull,
                   pointerX, autoScrollRAF, trackScrollLeft, overlayDrag,
                   selectedKF, nextId, snapEnabled, snapInterval, timelineZoom,
                   dragState, scrubState, scrollY, now>>

\* a Load button: loadPreset(index) is setLayers(presets[index].config)
loadPreset(index) ==
    /\ Input
    /\ index \in 1..Len(presets.items)
    /\ EditLayers(presets.items[index].config)
    /\ UNCHANGED <<util, presets, editorTheme, localStorage, storageFull, thrown,
                   pointerX, autoScrollRAF, trackScrollLeft, overlayDrag,
                   selectedKF, nextId, snapEnabled, snapInterval, timelineZoom,
                   dragState, scrubState, scrollY, now>>

\* a theme button: setEditorTheme(theme); the effect persists a changed theme
SetTheme(theme) ==
    /\ Input
    /\ editorTheme' = theme
    /\ localStorage' = IF theme # editorTheme
                       THEN PersistTheme(localStorage, theme, storageFull)
                       ELSE localStorage
    /\ NoRender
    /\ UNCHANGED <<util, presets, storageFull, thrown,
                   pointerX, autoScrollRAF, trackScrollLeft, overlayDrag,
                   selectedKF, nextId, snapEnabled, snapInterval, timelineZoom,
                   dragState, scrubState, scrollY, now>>

\* the environment: the store's quota is used up, or space is freed
StorageFills ==
    /\ storageFull' = ~storageFull
    /\ NoRender
    /\ UNCHANGED <<util, presets, editorTheme, localStorage, thrown,
                   pointerX, autoScrollRAF, trackScrollLeft, overlayDrag,
                   selectedKF, nextId, snapEnabled, snapInterval, timelineZoom,
                   dragState, scrubState, scrollY, now, ops>>

----------------------------------------------------------------------------
(* Teardown *)

\* the component is unmounted: the cleanup of the mount effect and the
\* cleanup of the playback effect each cancelAnimationFrame(rafRef.current);
\* the keydown and scroll listeners are removed; nothing touches autoScrollRAF
Unmount ==
    /\ Input
    /\ unmounted' = TRUE
    /\ rafPending' = FALSE
    /\ ticksPending' = Max(0, ticksPending - 1)
    /\ UNCHANGED <<layers, timelineDuration, playing, previewAsScroll, currentTime,
                   start, painted, resumed, imagesRef, imageLoads,
                   util, presets, editorTheme, localStorage, storageFull, thrown,
                   pointerX, autoScrollRAF, trackScrollLeft, overlayDrag,
                   selectedKF, nextId, snapEnabled, snapInterval, timelineZoom,
                   dragState, scrubState, scrollY, now>>

----------------------------------------------------------------------------
(* Specifications *)

\* the editor without playback
Next ==
    \/ \E l \in LayerIds, k \in LayerIds : TimelinePointerDown(l, k)
    \/ \E x \in PointerXs : TimelinePointerMove(x)
    \/ TimelinePointerUp
    \/ \E right \in BOOLEAN, shift \in BOOLEAN, onMarker \in BOOLEAN, committed \in BOOLEAN :
          ArrowKey(right, shift, onMarker, committed)
    \/ AddKey
    \/ DeleteKey
    \/ \E l \in LayerIds, k \in LayerIds, t \in TimeFieldValues : PanelTimeField(l, k, t)
    \/ \E l \in LayerIds, k \in LayerIds : PanelRemoveKeyframe(l, k)
    \/ \E l \in LayerIds : PanelAddKeyframe(l)
    \/ AddLayer
    \/ \E l \in LayerIds : RemoveLayer(l)
    \/ Reset
    \/ \E d \in Durations : SetDuration(d)
    \/ SetSnapEnabled
    \/ \E i \in SnapIntervals : SetSnapInterval(i)
    \/ \E z \in Zooms : SetZoom(z)
    \/ ScrubPointerDown
    \/ \E x \in PointerXs : ScrubPointerMove(x)
    \/ ScrubPointerUp

Spec == Init /\ [][Next]_vars

\* playback, with the inputs that write currentTime, timelineDuration or layers
NextPlay ==
    \/ Play
    \/ Pause
    \/ Stop
    \/ PlaybackTick
    \/ \E g \in FrameGaps : Advance(g)
    \/ \E d \in Durations : SetDuration(d)
    \/ \E l \in LayerIds : ToggleVisible(l)
    \/ ScrubPointerDown
    \/ \E x \in PointerXs : ScrubPointerMove(x)
    \/ ScrubPointerUp
    \/ TogglePreviewAsScroll
    \/ \E top \in ScrollTops : WindowScroll(top)

SpecPlay == Init /\ [][NextPlay]_vars

\* pointer gestures: keyframe drag with its auto-scroll loop, scrub, overlay drag
NextPointer ==
    \/ TimelinePointerCancel
    \/ \E l \in LayerIds, k \in LayerIds : TimelinePointerDown(l, k)
    \/ \E x \in PointerXs : TimelinePointerMove(x)
    \/ TimelinePointerUp
    \/ AutoScrollFrame
    \/ \E z \in Zooms : SetZoom(z)
    \/ ScrubPointerDown
    \/ \E x \in PointerXs : ScrubPointerMove(x)
    \/ ScrubPointerUp
    \/ \E l \in LayerIds : LayerPointerDown(l)
    \/ \E pt \in OverlayPoints : LayerPointerMove(pt)
    \/ LayerPointerUp

SpecPointer == Init /\ [][NextPointer]_vars

\* everything that moves a keyframe in time, next to what only reads the
\* layers: scrubbing and playback
NextKeyframeTimes ==
    \/ \E l \in LayerIds, k \in LayerIds : TimelinePointerDown(l, k)
    \/ \E x \in PointerXs : TimelinePointerMove(x)
    \/ TimelinePointerUp
    \/ \E right \in BOOLEAN, shift \in BOOLEAN, onMarker \in BOOLEAN, committed \in BOOLEAN :
          ArrowKey(right, shift, onMarker, committed)
    \/ ScrubPointerDown
    \/ \E x \in PointerXs : ScrubPointerMove(x)
    \/ ScrubPointerUp
    \/ Play
    \/ PlaybackTick
    \/ \E g \in FrameGaps : Advance(g)

SpecKeyframeTimes == Init /\ [][NextKeyframeTimes]_vars

\* what the store may hold under the presets key when the page is opened
StoredPresets ==
    {NoItem, Item(EmptyText), Item(GarbledText),
     Item(JSONstringify(JsonOther("object"))),
     Item(JSONstringify(JsonOther("null"))),
     Item(JSONstringify(JsonArray(<<>>))),
     Item(JSONstringify(JsonArray(<<[name |-> "a", config |-> InitialLayers]>>)))}

\* what the store may hold under the theme key when the page is opened
StoredThemes == {[present |-> FALSE, text |-> ""], [present |-> TRUE, text |-> "dark"],
                 [present |-> TRUE, text |-> "neon"]}

\* the editor opened over any such store
InitPresets ==
    /\ layers = InitialLayers
    /\ selectedKF = NoSel
    /\ nextId = 1 + 2 * IdsPerLayer
    /\ timelineDuration = DefaultDuration
    /\ snapEnabled = TRUE
    /\ snapInterval = DefaultSnapInterval
    /\ timelineZoom = DefaultZoom
    /\ dragState = NoDrag
    /\ scrubState = NoScrub
    /\ currentTime = 0
    /\ playing = FALSE
    /\ previewAsScroll = FALSE
    /\ scrollY = 0
    /\ rafPending = FALSE
    /\ start = 0
    /\ now = 0
    /\ painted = draw(InitialLayers, 0)
    /\ resumed = NotResumed
    /\ ops = 0
    /\ pointerX = 0
    /\ autoScrollRAF = FALSE
    /\ trackScrollLeft = [l \in LayerIds |-> 0]
    /\ overlayDrag = NoOverlayDrag
    /\ \E sp \in StoredPresets, st \in StoredThemes, full \in BOOLEAN :
          Mounted([presets |-> sp, theme |-> st], full)
    /\ util = NoCall
    /\ imagesRef = [l \in LayerIds |-> NoImage]
    /\ imageLoads = {}
    /\ ticksPending = 0
    /\ unmounted = FALSE

\* presets and theme, with the removal of a layer to vary what is saved
NextPresets ==
    \/ \E name \in PresetNames : savePreset(name)
    \/ \E index \in 1..(MaxOps + 1) : loadPreset(index)
    \/ \E theme \in Themes : SetTheme(theme)
    \/ StorageFills
    \/ \E l \in LayerIds : RemoveLayer(l)

SpecPresets == InitPresets /\ [][NextPresets]_vars

\* playback that nothing pauses or stops, with edits of the duration and of
\* the layers; frames keep coming: the clock moves on and the scheduled
\* callback is delivered
NextPlayLive ==
    \/ Play
    \/ PlaybackTick
    \/ \E g \in FrameGaps : AdvanceFrame(g)
    \/ \E d \in Durations : SetDuration(d)
    \/ \E l \in LayerIds : ToggleVisible(l)

SpecPlayLive ==
    /\ Init
    /\ [][NextPlayLive]_vars
    /\ WF_vars(PlaybackTick)
    /\ WF_vars(\E g \in FrameGaps : AdvanceFrame(g))

\* a keyframe drag and a scrub at once, each with its own pointer
NextTwoPointers ==
    \/ \E l \in LayerIds, k \in LayerIds : TimelinePointerDown(l, k)
    \/ \E x \in PointerXs : TimelinePointerMove(x)
    \/ TimelinePointerUp
    \/ ScrubPointerDown
    \/ \E x \in PointerXs : ScrubberPointerMove(x)
    \/ ScrubberPointerUp

SpecTwoPointers == Init /\ [][NextTwoPointers]_vars

\* teardown during a keyframe drag or during playback
NextTeardown ==
    \/ Unmount
    \/ \E l \in LayerIds, k \in LayerIds : TimelinePointerDown(l, k)
    \/ \E x \in PointerXs : TimelinePointerMove(x)
    \/ TimelinePointerUp
    \/ AutoScrollFrame
    \/ \E z \in Zooms : SetZoom(z)
    \/ Play
    \/ PlaybackTick
    \/ \E g \in FrameGaps : Advance(g)

SpecTeardown == Init /\ [][NextTeardown]_vars

\* layer images: the file input of the layer panel, the loads the preload
\* effect starts, and an edit that redraws
NextImages ==
    \/ \E l \in LayerIds, src \in ImageSources : SetLayerImage(l, src)
    \/ \E l \in LayerIds, src \in ImageSources : ImageLoaded([layerId |-> l, src |-> src])
    \/ \E l \in LayerIds, src \in ImageSources : ImageFailed([layerId |-> l, src |-> src])
    \/ \E l \in LayerIds : ToggleVisible(l)

SpecImages == Init /\ [][NextImages]_vars

----------------------------------------------------------------------------
(* Sampling: draw(time) on one layer whose keyframes are drawn from a small  *)
(* set of sorted, non-empty lists                                            *)

CssEase == <<25, 10, 25, 100>>     \* cubic-bezier(0.25, 0.1, 0.25, 1)
SampleValues == {[translate |-> DefaultTranslate, opacity |-> 0],
                 [translate |-> 0, opacity |-> FullOpacity]}
SampleEasings == {[easing |-> "linear", bezier |-> NoBezier],
                  [easing |-> "ease-out", bezier |-> NoBezier],
                  [easing |-> NoEasing, bezier |-> NoBezier],
                  [easing |-> "ease-in", bezier |-> CssEase]}
SampleChoices == [time : 0..MaxSampleTime, value : SampleValues, ease : SampleEasings]
SampleTimes == 0..(MaxSampleTime + 1)

\* the keyframe list of a choice per position; ids follow the layer's id
SampleKeyframes(c) ==
    [i \in 1..Len(c) |-> Keyframe(1 + i, c[i].time, c[i].value.translate,
                                  c[i].value.opacity, c[i].ease.easing, c[i].ease.bezier)]

InitSample ==
    /\ \E n \in 1..MaxSampleKfs : \E c \in [1..n -> SampleChoices] :
          /\ IsSorted(c)
          /\ layers = <<[defaultLayer(1) EXCEPT !.keyframes = SampleKeyframes(c)]>>
    /\ selectedKF = NoSel
    /\ nextId = 2 + MaxSampleKfs
    /\ timelineDuration = DefaultDuration
    /\ snapEnabled = TRUE
    /\ snapInterval = DefaultSnapInterval
    /\ timelineZoom = DefaultZoom
    /\ dragState = NoDrag
    /\ scrubState = NoScrub
    /\ currentTime = 0
    /\ playing = FALSE
    /\ previewAsScroll = FALSE
    /\ scrollY = 0
    /\ rafPending = FALSE
    /\ start = 0
    /\ now = 0
    /\ painted = draw(layers, 0)
    /\ resumed = NotResumed
    /\ ops = 0
    /\ pointerX = 0
    /\ autoScrollRAF = FALSE
    /\ trackScrollLeft = [l \in LayerIds |-> 0]
    /\ overlayDrag = NoOverlayDrag
    /\ Mounted(EmptyStore, FALSE)
    /\ util = NoCall
    /\ imagesRef = [l \in LayerIds |-> NoImage]
    /\ imageLoads = {}
    /\ ticksPending = 0
    /\ unmounted = FALSE

\* draw(t): one call of draw, whoever makes it
Redraw(t) ==
    /\ painted' = draw(layers, t)
    /\ UNCHANGED <<imagesRef, imageLoads, ticksPending, unmounted,
                   util, presets, editorTheme, localStorage, storageFull, thrown,
                   pointerX, autoScrollRAF, trackScrollLeft, overlayDrag,
                   layers, selectedKF, nextId, timelineDuration, snapEnabled,
                   snapInterval, timelineZoom, dragState, scrubState, currentTime,
                   playing, previewAsScroll, scrollY, rafPending, start, now,
                   resumed, ops>>

NextSample == \E t \in SampleTimes : Redraw(t)

SpecSample == InitSample /\ [][NextSample]_vars

\* draw on segments: up to MaxSegmentKfs keyframes on a grid of times that
\* holds thirds and halves of a span, easing names only
SegmentTimes == {0, 250, 500, 750, 1000}
SegmentEasings == {[easing |-> "linear", bezier |-> NoBezier],
                   [easing |-> "ease-in", bezier |-> NoBezier]}
SegmentChoices == [time : SegmentTimes, value : SampleValues, ease : SegmentEasings]

InitSegment ==
    /\ \E n \in 1..MaxSegmentKfs : \E c \in [1..n -> SegmentChoices] :
          /\ IsSorted(c)
          /\ layers = <<[defaultLayer(1) EXCEPT !.keyframes = SampleKeyframes(c)]>>
    /\ selectedKF = NoSel
    /\ nextId = 2 + MaxSegmentKfs
    /\ timelineDuration = DefaultDuration
    /\ snapEnabled = TRUE
    /\ snapInterval = DefaultSnapInterval
    /\ timelineZoom = DefaultZoom
    /\ dragState = NoDrag
    /\ scrubState = NoScrub
    /\ currentTime = 0
    /\ playing = FALSE
    /\ previewAsScroll = FALSE
    /\ scrollY = 0
    /\ rafPending = FALSE
    /\ start = 0
    /\ now = 0
    /\ painted = draw(layers, 0)
    /\ resumed = NotResumed
    /\ ops = 0
    /\ pointerX = 0
    /\ autoScrollRAF = FALSE
    /\ trackScrollLeft = [l \in LayerIds |-> 0]
    /\ overlayDrag = NoOverlayDrag
    /\ Mounted(EmptyStore, FALSE)
    /\ util = NoCall
    /\ imagesRef = [l \in LayerIds |-> NoImage]
    /\ imageLoads = {}
    /\ ticksPending = 0
    /\ unmounted = FALSE

NextSegment == \E t \in SegmentTimes : Redraw(t)

SpecSegment == InitSegment /\ [][NextSegment]_vars

\* draw on eased segments: every way a keyframe can carry an easing name
\* (known, unknown, none) and a bezier, on times that leave room inside a span
EasingTimes == {0, 2}
EasingSampleTimes == {0, 1, 2}
EasingKinds == {[easing |-> "linear", bezier |-> NoBezier],
                [easing |-> "ease-in", bezier |-> NoBezier],
                [easing |-> "ease-out", bezier |-> NoBezier],
                [easing |-> "ease", bezier |-> NoBezier],
                [easing |-> "bounce", bezier |-> NoBezier],
                [easing |-> NoEasing, bezier |-> NoBezier],
                [easing |-> "ease-in", bezier |-> CssEase]}
EasingChoices == [time : EasingTimes, value : SampleValues, ease : EasingKinds]

InitEasing ==
    /\ \E n \in 1..MaxEasingKfs : \E c \in [1..n -> EasingChoices] :
          /\ IsSorted(c)
          /\ layers = <<[defaultLayer(1) EXCEPT !.keyframes = SampleKeyframes(c)]>>
    /\ selectedKF = NoSel
    /\ nextId = 2 + MaxEasingKfs
    /\ timelineDuration = DefaultDuration
    /\ snapEnabled = TRUE
    /\ snapInterval = DefaultSnapInterval
    /\ timelineZoom = DefaultZoom
    /\ dragState = NoDrag
    /\ scrubState = NoScrub
    /\ currentTime = 0
    /\ playing = FALSE
    /\ previewAsScroll = FALSE
    /\ scrollY = 0
    /\ rafPending = FALSE
    /\ start = 0
    /\ now = 0
    /\ painted = draw(layers, 0)
    /\ resumed = NotResumed
    /\ ops = 0
    /\ pointerX = 0
    /\ autoScrollRAF = FALSE
    /\ trackScrollLeft = [l \in LayerIds |-> 0]
    /\ overlayDrag = NoOverlayDrag
    /\ Mounted(EmptyStore, FALSE)
    /\ util = NoCall
    /\ imagesRef = [l \in LayerIds |-> NoImage]
    /\ imageLoads = {}
    /\ ticksPending = 0
    /\ unmounted = FALSE

NextEasing == \E t \in EasingSampleTimes : Redraw(t)

SpecEasing == InitEasing /\ [][NextEasing]_vars

----------------------------------------------------------------------------
(* The functions of animationUtils.ts, called on inputs of a bounded set *)

SnapDenominators == {1, 2, 3}
SnapCallIntervals == {-50, 0, 1, 7, 50}

\* snap(n / d, interval), the one call of a run
CallSnap(n, d, interval) ==
    /\ util = NoCall
    /\ util' = [fn |-> "snap", v |-> n, d |-> d, a |-> interval, b |-> 0,
                result |-> snap(n, d, interval).n, resultDen |-> snap(n, d, interval).d,
                iterations |-> 0]
    /\ UNCHANGED <<imagesRef, imageLoads, ticksPending, unmounted,
                   layers, selectedKF, nextId, timelineDuration, snapEnabled,
                   snapInterval, timelineZoom, dragState, scrubState, currentTime,
                   playing, previewAsScroll, scrollY, rafPending, start, now,
                   painted, resumed, ops, pointerX, autoScrollRAF, trackScrollLeft,
                   overlayDrag, presets, editorTheme, localStorage, storageFull, thrown>>

\* clamp(v, lo, hi), the one call of a run
CallClamp(v, lo, hi) ==
    /\ util = NoCall
    /\ util' = [fn |-> "clamp", v |-> v, d |-> 1, a |-> lo, b |-> hi,
                result |-> clamp(v, lo, hi), resultDen |-> 1, iterations |-> 0]
    /\ UNCHANGED <<imagesRef, imageLoads, ticksPending, unmounted,
                   layers, selectedKF, nextId, timelineDuration, snapEnabled,
                   snapInterval, timelineZoom, dragState, scrubState, currentTime,
                   playing, previewAsScroll, scrollY, rafPending, start, now,
                   painted, resumed, ops, pointerX, autoScrollRAF, trackScrollLeft,
                   overlayDrag, presets, editorTheme, localStorage, storageFull, thrown>>

\* cubicBezierEasing(0.25, 0.1, 0.25, 1)(k / BezierGrid) in fixed point, the
\* one call of a run
CallBezier(k) ==
    /\ util = NoCall
    /\ LET x == (k * One) \div BezierGrid
       IN  util' = [fn |-> "cubicBezierEasing", v |-> x, d |-> One, a |-> 0, b |-> 0,
                    result |-> cubicBezierEasing(CssEase, x), resultDen |-> One,
                    iterations |-> BezierSearchOf(CssEase, x).iterations]
    /\ UNCHANGED <<imagesRef, imageLoads, ticksPending, unmounted,
                   layers, selectedKF, nextId, timelineDuration, snapEnabled,
                   snapInterval, timelineZoom, dragState, scrubState, currentTime,
                   playing, previewAsScroll, scrollY, rafPending, start, now,
                   painted, resumed, ops, pointerX, autoScrollRAF, trackScrollLeft,
                   overlayDrag, presets, editorTheme, localStorage, storageFull, thrown>>

NextUtils ==
    \/ \E n \in (-MaxSnapValue)..MaxSnapValue, d \in SnapDenominators,
          interval \in SnapCallIntervals : CallSnap(n, d, interval)
    \/ \E v \in (-MaxClampArg)..MaxClampArg, lo \in (-MaxClampArg)..MaxClampArg,
          hi \in (-MaxClampArg)..MaxClampArg : CallClamp(v, lo, hi)
    \/ \E k \in 0..BezierGrid : CallBezier(k)

SpecUtils == Init /\ [][NextUtils]_vars

----------------------------------------------------------------------------
(* Claims about the editor (Spec) *)

\* C1: a step that changes a keyframe's time or adds a keyframe (drag move,
\* arrow nudge, the panel's time field, addKeyframe, the 'A' key) leaves the
\* keyframes of that layer in non-decreasing order of time.
C1_SortedAfterTimeEdit ==
    [][\A i \in 1..Len(layers') :
          LET after == layers'[i].keyframes
          IN  (/\ HasLayer(layers, layers'[i].id)
               /\ LayerOf(layers, layers'[i].id).keyframes # after
               /\ Len(after) >= Len(LayerOf(layers, layers'[i].id).keyframes))
              => IsSorted(after)]_vars

\* a time edit has moved a keyframe past a neighbour: the later-made keyframe
\* now stands before the earlier-made one
C1_Witness ==
    \E i \in 1..Len(layers) : \E j \in 1..(Len(layers[i].keyframes) - 1) :
        /\ layers[i].keyframes[j].id > layers[i].keyframes[j + 1].id
        /\ layers[i].keyframes[j].time < layers[i].keyframes[j + 1].time

\* C2: every layer has at least one keyframe in every reachable state.
C2_LayersHaveKeyframes ==
    \A i \in 1..Len(layers) : Len(layers[i].keyframes) >= 1

\* the keyframe a drag is moving, if it still exists
DraggedExists ==
    /\ dragState # NoDrag
    /\ HasLayer(layers, dragState.layerId)
    /\ HasKf(LayerOf(layers, dragState.layerId), dragState.kfId)
DraggedTime == KfOf(LayerOf(layers, dragState.layerId), dragState.kfId).time

\* C3: after every pointer-move of an Active keyframe drag the dragged
\* keyframe's time t satisfies 0 <= t <= duration.
C3_DragTimeInRange ==
    [][(\E x \in PointerXs : TimelinePointerMove(x))
          => (DraggedExists' => (0 <= DraggedTime' /\ DraggedTime' <= timelineDuration'))]_vars

----------------------------------------------------------------------------
(* Claims about the playback clock (SpecPlay) *)

\* C4: in every reachable state 0 <= currentTime <= duration, whatever the
\* interleaving of play/pause/stop, ticks, scrubbing, scroll-preview updates
\* and edits of the duration field.
C4_CurrentTimeInRange ==
    0 <= currentTime /\ currentTime <= timelineDuration

\* C5: while playing, a tick whose elapsed time is >= duration sets
\* currentTime to exactly duration, ends playing and schedules no further tick.
C5_TickClampsAtEnd ==
    [][(PlaybackTick /\ playing /\ Elapsed >= timelineDuration)
          => (/\ currentTime' = timelineDuration'
              /\ ~playing'
              /\ ~rafPending')]_vars

\* play() was the only input and the clock has run the timeline to its end
C5_Witness ==
    /\ ops = 1
    /\ ~playing
    /\ ~rafPending
    /\ currentTime = timelineDuration
    /\ now >= timelineDuration

\* C6: after play() from a rest at position p (the state pause() leaves),
\* every tick before the end of the timeline writes p plus the time elapsed
\* since that play(): never less than p, the rest never counted.
C6_ResumeIsContinuous ==
    [][(PlaybackTick /\ resumed.at >= 0 /\ Elapsed < timelineDuration)
          => currentTime' = resumed.p + (now - resumed.at)]_vars

\* C7: once pause() or stop() has ended playing, no scheduled tick is left
\* to run: while not playing no frame callback is pending.
C7_NoTickAfterCancel ==
    ~playing => ~rafPending

\* pause() after a tick has moved the clock: only ticks write a position that
\* equals the wall clock, and only pause() rests there
C7_Witness ==
    /\ ~playing
    /\ ~rafPending
    /\ scrubState = NoScrub
    /\ ~previewAsScroll
    /\ scrollY = 0
    /\ 0 < currentTime
    /\ currentTime < timelineDuration
    /\ currentTime = now

\* the scroll preview's onScroll ran in this step: on a scroll event, or
\* called by its effect when the effect is set up again
OnScrollRan ==
    \/ \E top \in ScrollTops : WindowScroll(top)
    \/ ScrollEffectRuns(layers' # layers, timelineDuration', previewAsScroll')

\* C8: stop() from any state leaves the player not playing with
\* currentTime = 0 and the preview drawn at t = 0, and at rest currentTime
\* stays 0 until play(), a scrub or an update of the scroll preview.
C8_StopResets ==
    [][/\ Stop => (/\ ~playing'
                   /\ currentTime' = 0
                   /\ painted' = draw(layers', 0))
       /\ (/\ ~playing
           /\ currentTime = 0
           /\ ~Play
           /\ ~ScrubPointerDown
           /\ ~(\E x \in PointerXs : ScrubPointerMove(x))
           /\ ~OnScrollRan)
          => currentTime' = 0]_vars

\* stop() with the scroll preview on and the page scrolled: every update of
\* the scroll preview writes a time > 0 there, only stop() writes 0
C8_Witness ==
    /\ previewAsScroll
    /\ scrollY # 0
    /\ scrubState = NoScrub
    /\ ~playing
    /\ currentTime = 0
    /\ painted = draw(layers, 0)

----------------------------------------------------------------------------
(* Claims about sampling (SpecSample) *)

\* what draw painted for the sampled layer equals keyframe k's own values
PaintedIs(k) ==
    /\ Len(painted.samples) = 1
    /\ painted.samples[1].translate = k.translate * One
    /\ painted.samples[1].alpha = k.opacity * One

SampledKfs == layers[1].keyframes

\* C9: for a sorted non-empty keyframe list, sampling at t = k.time yields
\* exactly k's translate and opacity, for every keyframe k of the list that
\* is the first of the list with its time (every keyframe when the times are
\* all different), whatever the easings.
C9_ExactAtFirstKeyframeOfTime ==
    \A i \in 1..Len(SampledKfs) :
        (/\ SampledKfs[i].time = painted.time
         /\ \A j \in 1..(i - 1) : SampledKfs[j].time # painted.time)
        => PaintedIs(SampledKfs[i])

\* C9 as stated: at t = k.time the sample is exactly k's values, for every
\* keyframe k of the list.
C9_ExactAtEveryKeyframe ==
    \A i \in 1..Len(SampledKfs) :
        SampledKfs[i].time = painted.time => PaintedIs(SampledKfs[i])

\* sampled at the time of a second keyframe that differs from the first and
\* carries a bezier curve
C9_Witness ==
    /\ Len(SampledKfs) = 2
    /\ SampledKfs[1].time < SampledKfs[2].time
    /\ SampledKfs[1].translate # SampledKfs[2].translate
    /\ SampledKfs[2].bezier # NoBezier
    /\ painted.time = SampledKfs[2].time
    /\ PaintedIs(SampledKfs[2])

\* C10: for a sorted non-empty keyframe list, sampling before the first
\* keyframe's time yields exactly the first keyframe's values and sampling
\* after the last keyframe's time exactly the last keyframe's.
C10_NoExtrapolation ==
    /\ painted.time < SampledKfs[1].time => PaintedIs(SampledKfs[1])
    /\ painted.time > SampledKfs[Len(SampledKfs)].time
          => PaintedIs(SampledKfs[Len(SampledKfs)])

\* sampled after the last of two different keyframes, the last one eased by
\* a bezier curve
C10_Witness ==
    /\ Len(SampledKfs) = 2
    /\ painted.time > SampledKfs[2].time
    /\ SampledKfs[1].translate # SampledKfs[2].translate
    /\ SampledKfs[2].bezier # NoBezier
    /\ PaintedIs(SampledKfs[2])

----------------------------------------------------------------------------
(* Claims about segments (SpecSegment) *)

\* p + (n - p) * (t - p.time) / (n.time - p.time) for the pair of values
\* (translate, opacity) of keyframes p and n, as fixed-point values
LinearBetween(p, n, t) ==
    LET progress == IF t = n.time THEN One ELSE DivFix(t - p.time, n.time - p.time)
    IN  [translate |-> p.translate * One + (n.translate - p.translate) * progress,
         alpha |-> p.opacity * One + (n.opacity - p.opacity) * progress]

PaintedIsLinear(p, n) ==
    /\ Len(painted.samples) = 1
    /\ painted.samples[1].translate = LinearBetween(p, n, painted.time).translate
    /\ painted.samples[1].alpha = LinearBetween(p, n, painted.time).alpha

IsLinear(k) == k.easing = "linear" /\ k.bezier = NoBezier

\* C11: for adjacent keyframes p, n with p.time < n.time and n linear,
\* sampling at t yields p + (n - p) * (t - p.time) / (n.time - p.time) for
\* translate and opacity, for every t in (p.time, n.time], and for t = p.time
\* when no earlier keyframe of the list has p's time; keyframes (0, 40, 0)
\* and (1000, 0, 1) sampled at 500 give translate 20 and opacity 0.5.
C11_LinearSegment ==
    /\ \A i \in 1..(Len(SampledKfs) - 1) :
          (/\ SampledKfs[i].time < SampledKfs[i + 1].time
           /\ IsLinear(SampledKfs[i + 1])
           /\ painted.time <= SampledKfs[i + 1].time
           /\ \/ SampledKfs[i].time < painted.time
              \/ /\ SampledKfs[i].time = painted.time
                 /\ \A j \in 1..(i - 1) : SampledKfs[j].time # painted.time)
          => PaintedIsLinear(SampledKfs[i], SampledKfs[i + 1])
    /\ (/\ SampledKfs = <<Keyframe(2, 0, 40, 0, "linear", NoBezier),
                          Keyframe(3, 1000, 0, 100, "linear", NoBezier)>>
        /\ painted.time = 500)
          => painted.samples = <<[id |-> 1, translate |-> 20 * One, alpha |-> 50 * One,
                                 fill |-> "color"]>>

\* C11 as stated: the same for every t in [p.time, n.time].
C11_LinearSegmentClosed ==
    \A i \in 1..(Len(SampledKfs) - 1) :
        (/\ SampledKfs[i].time < SampledKfs[i + 1].time
         /\ IsLinear(SampledKfs[i + 1])
         /\ SampledKfs[i].time <= painted.time
         /\ painted.time <= SampledKfs[i + 1].time)
        => PaintedIsLinear(SampledKfs[i], SampledKfs[i + 1])

\* sampled a third of the way into a linear segment between different values
C11_Witness ==
    /\ Len(SampledKfs) = 2
    /\ SampledKfs[1].time = 0
    /\ SampledKfs[2].time = 750
    /\ SampledKfs[1].translate # SampledKfs[2].translate
    /\ IsLinear(SampledKfs[2])
    /\ painted.time = 250
    /\ PaintedIsLinear(SampledKfs[1], SampledKfs[2])

----------------------------------------------------------------------------
(* Claims about pointer gestures (SpecPointer) *)

\* C12: an Active keyframe drag returns to Idle (drag state cleared) when the
\* pointer is released and also when pointer capture is lost or the pointer
\* is cancelled.
C12_DragEndsOnReleaseOrCancel ==
    [][(TimelinePointerUp \/ TimelinePointerCancel) => dragState' = NoDrag]_vars

\* the scroll offset of the track whose marker is being dragged
DragScrollLeft == trackScrollLeft[dragState.layerId]

\* the pointer's current position is within the edge margin of the left
\* (right) edge of the scroller
PointerNearLeft == pointerX - Page.trackLeft < EdgeMargin
PointerNearRight ==
    /\ ~PointerNearLeft
    /\ (Page.trackLeft + Page.trackWidth) - pointerX < EdgeMargin

\* the drag started on a marker that was on screen, inside the scroller's box
DragStartedOnScreen ==
    0 <= dragState.offsetX /\ dragState.offsetX <= Page.trackWidth

\* C13: while a keyframe drag is Active, each auto-scroll frame moves the
\* track's scroll offset toward an edge (as far as the scroll range allows)
\* exactly when the pointer's current position is within the margin of that
\* edge, and leaves it unchanged when the pointer is outside both margins.
C13_AutoScrollFollowsPointer ==
    [][(AutoScrollFrame /\ dragState # NoDrag /\ DragStartedOnScreen)
          => /\ PointerNearLeft
                  => \/ DragScrollLeft' < DragScrollLeft
                     \/ DragScrollLeft = 0 /\ DragScrollLeft' = 0
             /\ PointerNearRight
                  => \/ DragScrollLeft' > DragScrollLeft
                     \/ /\ DragScrollLeft = MaxScrollLeft(timelineZoom)
                        /\ DragScrollLeft' = DragScrollLeft
             /\ (~PointerNearLeft /\ ~PointerNearRight)
                  => DragScrollLeft' = DragScrollLeft]_vars

\* C14: while no keyframe drag is Active the auto-scroll loop is not
\* running: no frame of it is scheduled, so none changes a scroll offset.
C14_NoAutoScrollWhenIdle ==
    dragState = NoDrag => ~autoScrollRAF

\* a drag that was auto-scrolled has been ended by releasing the pointer
C14_Witness ==
    /\ dragState = NoDrag
    /\ ~autoScrollRAF
    /\ \E l \in LayerIds : trackScrollLeft[l] > 0

\* the layer an overlay drag is moving, if it still exists
OverlayLayerExists == overlayDrag # NoOverlayDrag /\ HasLayer(layers, overlayDrag.layerId)
OverlayLayer == LayerOf(layers, overlayDrag.layerId)

\* C15: a pointer-move delivered again at the same position during a keyframe
\* drag, a scrub or an overlay drag changes nothing: when the state already
\* holds what the event writes (it was written by the first delivery), the
\* keyframe times, currentTime and the layers' x, y stay as they are.
C15_PointerMoveIdempotent ==
    [][/\ \A x \in PointerXs :
            (/\ TimelinePointerMove(x)
             /\ DraggedExists
             /\ DraggedTime = DragTime(x - dragState.rectLeft, dragState.rectWidth10,
                                       timelineDuration, snapEnabled, snapInterval))
            => (layers' = layers /\ currentTime' = currentTime)
       /\ \A x \in PointerXs :
            (/\ ScrubPointerMove(x)
             /\ currentTime = ScrubTime(x - scrubState.rectLeft, scrubState.rectWidth10))
            => (layers' = layers /\ currentTime' = currentTime)
       /\ \A pt \in OverlayPoints :
            (/\ LayerPointerMove(pt)
             /\ OverlayLayerExists
             /\ OverlayLayer.x = OverlayX(pt)
             /\ OverlayLayer.y = OverlayY(pt))
            => (layers' = layers /\ currentTime' = currentTime)]_vars

\* a keyframe drag after two pointer-moves, the dragged keyframe holding the
\* time of the pointer's position, away from its default time
C15_Witness ==
    /\ ops = 3
    /\ DraggedExists
    /\ pointerX \in PointerXs
    /\ DraggedTime = DragTime(pointerX - dragState.rectLeft, dragState.rectWidth10,
                              timelineDuration, snapEnabled, snapInterval)
    /\ DraggedTime \notin {DefaultKfA, DefaultKfB}

\* C18: after every pointer-move of an overlay drag the dragged layer's x and
\* y are each within [0, 100].
C18_OverlayInRange ==
    [][(\E pt \in OverlayPoints : LayerPointerMove(pt))
          => (OverlayLayerExists'
                => (/\ 0 <= OverlayLayer'.x /\ OverlayLayer'.x <= 100
                    /\ 0 <= OverlayLayer'.y /\ OverlayLayer'.y <= 100))]_vars

\* an overlay dragged beyond the right and the top border of the preview
C18_Witness ==
    /\ OverlayLayerExists
    /\ OverlayLayer.x = 100
    /\ OverlayLayer.y = 0

\* the selected keyframe's time
SelectedTime == KfOf(LayerOf(layers, selectedKF.layerId), selectedKF.kfId).time

\* C16: after an ArrowLeft / ArrowRight nudge the selected keyframe's time
\* lies in [0, duration], whatever its time and the duration were before.
C16_NudgeInRange ==
    [][(\E right \in BOOLEAN, shift \in BOOLEAN, onMarker \in BOOLEAN, committed \in BOOLEAN :
            ArrowKey(right, shift, onMarker, committed))
          => (0 <= SelectedTime' /\ SelectedTime' <= timelineDuration')]_vars

\* C17: one ArrowLeft / ArrowRight press moves the selected keyframe by
\* exactly one step (10, or 100 with Shift) before clamping, also when the
\* marker's handler and the window handler both react to it.
C17_OneStepPerPress ==
    [][\A right \in BOOLEAN, shift \in BOOLEAN, onMarker \in BOOLEAN, committed \in BOOLEAN :
          ArrowKey(right, shift, onMarker, committed)
            => SelectedTime' = NudgedTime(SelectedTime, right, shift)]_vars

\* the stored presets are a well-formed preset array
WellFormedPresets(raw) ==
    raw.present /\ raw.text.syntax = "json" /\ raw.text.value.type = "array"

\* C19: loading the presets at start yields an empty list and raises no error
\* whenever the stored value is absent or is not a well-formed preset array;
\* the presets are a list in every state, so the presets panel renders.
C19_PresetsLoadAsList ==
    /\ presets.type = "array"
    /\ thrown # "render"
    /\ (ops = 0 /\ ~WellFormedPresets(localStorage.presets)) => presets = JsonArray(<<>>)

\* C20: when the store rejects a write, saving a preset and persisting the
\* theme raise nothing.
C20_RejectedWriteIsSilent ==
    [][(storageFull /\ ((\E name \in PresetNames : savePreset(name))
                        \/ (\E theme \in Themes : SetTheme(theme))))
          => thrown' = thrown]_vars

\* C21: the theme state is light, dark or crimson in every state, and it is
\* light at start whenever the stored theme is absent or another string (the
\* store still holds what the page was opened over while no write succeeded).
C21_ThemeIsValid ==
    /\ editorTheme \in Themes
    /\ (ops = 0 /\ storageFull
          /\ (~localStorage.theme.present \/ localStorage.theme.text \notin Themes))
        => editorTheme = "light"

\* the layers a redraw has to paint: visible, with at least one keyframe
PaintableLayers ==
    LET Paintable(l) == l.visible /\ Len(l.keyframes) > 0
    IN  SelectSeq(layers, Paintable)

\* C22: a redraw paints nothing for a layer whose keyframe list is empty and
\* paints every other visible layer, in array order, with its sample.
C22_EmptyLayerSkipped ==
    /\ Len(painted.samples) = Len(PaintableLayers)
    /\ \A i \in 1..Len(PaintableLayers) :
          painted.samples[i] = SampleLayer(PaintableLayers[i], painted.time)

\* the first layer has lost its keyframes and a later layer is painted
C22_Witness ==
    /\ Len(layers) >= 2
    /\ Len(layers[1].keyframes) = 0
    /\ Len(painted.samples) >= 1
    /\ painted.samples[1].id = layers[2].id

\* C23: for interval > 0, snap(value, interval) is round(value / interval) *
\* interval, a multiple of interval at most interval / 2 away from value
\* (snap(123, 50) = 100, snap(149, 50) = 150); for interval <= 0 it is value.
C23_SnapRounds ==
    util.fn = "snap" =>
        IF util.a > 0
        THEN /\ util.resultDen = 1
             /\ util.result % util.a = 0
             \* out / a = floor(value / a + 1/2)
             /\ 2 * util.result * util.d <= 2 * util.v + util.d * util.a
             /\ 2 * util.v + util.d * util.a < 2 * (util.result + util.a) * util.d
             /\ 2 * Abs(util.result * util.d - util.v) <= util.a * util.d
             /\ (util.v = 123 /\ util.d = 1 /\ util.a = 50) => util.result = 100
             /\ (util.v = 149 /\ util.d = 1 /\ util.a = 50) => util.result = 150
        ELSE util.result = util.v /\ util.resultDen = util.d

\* snap(149, 50) has been called
C23_Witness ==
    util.fn = "snap" /\ util.v = 149 /\ util.d = 1 /\ util.a = 50 /\ util.result = 150

\* C24: f = cubicBezierEasing(0.25, 0.1, 0.25, 1) has f(0) within 1e-5 of 0,
\* f(1) within 1e-5 of 1 and f(0) < f(0.5) < f(1), and the binary search ends
\* after at most 25 iterations for every input.
C24_CssEaseEndpoints ==
    util.fn = "cubicBezierEasing" =>
        /\ util.iterations <= 25
        /\ util.v = 0 => Abs(util.result) <= One \div 100000
        /\ util.v = One => Abs(util.result - One) <= One \div 100000
        /\ 2 * util.v = One =>
              /\ cubicBezierEasing(CssEase, 0) < util.result
              /\ util.result < cubicBezierEasing(CssEase, One)

\* f(1) has been computed
C24_Witness ==
    util.fn = "cubicBezierEasing" /\ util.v = One /\ util.result > One \div 2

\* C25: for lo <= hi, clamp(v, lo, hi) lies in [lo, hi]; it is v when v is in
\* the range, lo when v < lo and hi when v > hi.
C25_ClampInRange ==
    (util.fn = "clamp" /\ util.a <= util.b) =>
        /\ util.a <= util.result /\ util.result <= util.b
        /\ (util.a <= util.v /\ util.v <= util.b) => util.result = util.v
        /\ util.v < util.a => util.result = util.a
        /\ util.v > util.b => util.result = util.b

\* a value above the range has been clamped
C25_Witness ==
    util.fn = "clamp" /\ util.a < util.b /\ util.v > util.b /\ util.result = util.b

\* prev and next of the painted time on the sampled layer
PaintedSegment ==
    ScanKeyframes(SampledKfs, painted.time, 1, SampledKfs[1], SampledKfs[Len(SampledKfs)])
PaintedLocalT == LocalT(PaintedSegment.prev, PaintedSegment.next, painted.time)

\* the easing of a segment as a function of its next keyframe alone
EasingOfNext(next, t) ==
    IF next.bezier # NoBezier THEN cubicBezierEasing(next.bezier, t)
    ELSE IF next.easing = "ease-in" THEN MulFix(t, t)
    ELSE IF next.easing = "ease-out" THEN MulFix(t, 2 * One - t)
    ELSE IF next.easing = "ease"
         THEN (IF 2 * t < One THEN 2 * MulFix(t, t) ELSE MulFix(4 * One - 2 * t, t) - One)
    ELSE t

\* the sampled layer with the easing and bezier of keyframe i replaced
WithEasing(i, e) ==
    [layers[1] EXCEPT !.keyframes[i].easing = e.easing, !.keyframes[i].bezier = e.bezier]

\* C26: the easing of a segment is that of next alone: next's bezier if it has
\* one (also when it has a named easing), else the closed form of next's
\* name, linear for `linear`, no name or an unknown name; the easing of every
\* other keyframe, prev included, does not change the sample.
C26_EasingOfNextOnly ==
    LET p == PaintedSegment.prev
        n == PaintedSegment.next
        e == EasingOfNext(n, PaintedLocalT)
    IN  /\ painted.samples[1].translate = lerp(p.translate, n.translate, e)
        /\ painted.samples[1].alpha =
              clamp(lerp(p.opacity, n.opacity, e), 0, FullOpacity * One)
        /\ \A i \in 1..Len(SampledKfs), c \in EasingKinds :
              SampledKfs[i].id # n.id
                => SampleLayer(WithEasing(i, c), painted.time) = painted.samples[1]

\* a sample strictly inside a segment whose next has a bezier and a name and
\* whose prev has another easing
C26_Witness ==
    /\ PaintedSegment.prev.time < painted.time
    /\ painted.time < PaintedSegment.next.time
    /\ PaintedSegment.next.bezier # NoBezier
    /\ PaintedSegment.next.easing = "ease-in"
    /\ PaintedSegment.prev.easing = "ease-out"
    /\ PaintedSegment.prev.translate # PaintedSegment.next.translate

\* the pointer's time of a keyframe-drag move at clientX x, as the rational n / d
PointerTime(x) == TrackTime(x - dragState.rectLeft, dragState.rectWidth10, timelineDuration)

\* C27: with snapping enabled and a positive snapInterval, after every
\* keyframe-drag pointer-move the dragged keyframe's time is the multiple of
\* snapInterval nearest to the pointer's time; with snapping disabled or
\* snapInterval <= 0 it is the pointer's time rounded to the nearest integer.
C27_DragSnaps ==
    [][\A x \in PointerXs :
          (TimelinePointerMove(x) /\ DraggedExists)
            => LET T == DraggedTime'
                   n == PointerTime(x).n
                   d == PointerTime(x).d
               IN  IF snapEnabled /\ snapInterval > 0
                   THEN /\ T % snapInterval = 0
                        /\ 2 * Abs(T * d - n) <= snapInterval * d
                   ELSE /\ 2 * T * d <= 2 * n + d
                        /\ 2 * n + d < 2 * (T + 1) * d]_vars

\* a drag has snapped the keyframe away from the pointer's time
C27_Witness ==
    /\ DraggedExists
    /\ snapEnabled
    /\ snapInterval = 300
    /\ pointerX = 100
    /\ DraggedTime = 600

\* what a scrub leaves alone
ScrubKeepsRest == playing' = playing /\ layers' = layers /\ selectedKF' = selectedKF

C29_OnlyTicksWriteTimeWhilePlaying ==
    [][(playing /\ playing' /\ currentTime' # currentTime) => PlaybackTick]_vars

\* keyframe k without its time
Timeless(k) == [k EXCEPT !.time = 0]

\* between this state and the next, only the time of keyframe kfId of layer
\* layerId may differ: same layers, same keyframe ids, every other field equal
OnlyTimeChanged(layerId, kfId) ==
    /\ Len(layers') = Len(layers)
    /\ \A i \in 1..Len(layers) :
          IF layers[i].id # layerId THEN layers'[i] = layers[i]
          ELSE /\ [layers'[i] EXCEPT !.keyframes = <<>>] = [layers[i] EXCEPT !.keyframes = <<>>]
               /\ Len(layers'[i].keyframes) = Len(layers[i].keyframes)
               /\ \A a \in 1..Len(layers[i].keyframes) :
                     \E b \in 1..Len(layers'[i].keyframes) :
                        LET k == layers[i].keyframes[a]
                            kk == layers'[i].keyframes[b]
                        IN  /\ kk.id = k.id
                            /\ Timeless(kk) = Timeless(k)
                            /\ k.id # kfId => kk = k

C32_UnloadedImagePaintsAsNoImage ==
    \A i \in 1..Len(painted.samples) :
        painted.samples[i].fill \in ImageSources \cup {"color"}

\* C38: after all pending image loads have completed, the image cached for a
\* layer is the one loaded from the layer's current image reference (or none,
\* if that load failed): no earlier load has overwritten a later one.
C38_CacheHoldsCurrentImage ==
    imageLoads = {} =>
        \A i \in 1..Len(layers) :
            layers[i].image # NoImage
                => imagesRef[layers[i].id] \in {layers[i].image, NoImage}

\* C33: when the editor component is torn down every scheduled callback it
\* owns is cancelled, the playback tick and the auto-scroll loop of an Active
\* keyframe drag: no callback is left to run after teardown.
C33_NoCallbackAfterTeardown ==
    unmounted => (~rafPending /\ ticksPending = 0 /\ ~autoScrollRAF)

\* C37: at most one playback tick is pending: a restart of the playback
\* effect cancels the scheduled tick before it schedules a new one.
C37_AtMostOneTick ==
    /\ ticksPending <= 1
    /\ rafPending <=> ticksPending = 1

\* playback was restarted by an edit after a tick had moved the playhead,
\* and one tick is scheduled
C37_Witness ==
    /\ playing
    /\ ticksPending = 1
    /\ currentTime > 0
    /\ start # resumed.at - resumed.p

\* C34: the keyframe drag and the scrub are independent: while both are
\* Active, a pointer-move or pointer-up of the scrubbing pointer changes no
\* keyframe and does not end the drag, and a pointer-move or pointer-up of the
\* dragging pointer changes neither currentTime nor the scrub.
C34_DragAndScrubIndependent ==
    [][(dragState # NoDrag /\ scrubState.active)
          => /\ ((\E x \in PointerXs : ScrubberPointerMove(x)) \/ ScrubberPointerUp)
                  => (layers' = layers /\ dragState' = dragState)
             /\ ((\E x \in PointerXs : TimelinePointerMove(x)) \/ TimelinePointerUp)
                  => (currentTime' = currentTime /\ scrubState' = scrubState)]_vars

\* C39: in every reachable state the keyframe selection is empty or names a
\* layer and a keyframe that exist: whatever removes the selected keyframe or
\* its layer (Delete or Backspace, the remove button of the panel, the layer's
\* Delete, Reset, loading a preset) leaves the selection empty.
C39_SelectionEmptyOrExisting ==
    selectedKF = NoSel \/ SelectionExists

\* C40: play() with currentTime already at (or past) the duration does not
\* restart: the first tick stops playback with currentTime = duration, and
\* what it leaves on the canvas is the frame at the duration, no earlier one.
C40_PlayAtEndStopsAtEnd ==
    [][(PlaybackTick /\ playing /\ currentTime = resumed.p
                     /\ resumed.p >= timelineDuration)
          => (~playing' /\ currentTime' = timelineDuration
                        /\ painted'.time = timelineDuration)]_vars

\* play() was pressed with the playhead at the end, the clock has moved on
\* and the first tick is due
C40_Witness ==
    /\ playing
    /\ rafPending
    /\ resumed.p = timelineDuration
    /\ currentTime = timelineDuration
    /\ now > resumed.at

PaintedSamples ==
    [i \in 1..Len(painted.samples) |->
        [id |-> painted.samples[i].id, translate |-> painted.samples[i].translate,
         alpha |-> painted.samples[i].alpha]]

\* C36: for every exported payload and every time t, the interpolation of the
\* exported React component and of the exported HTML preview yields for each
\* layer the same (translate, opacity) sample as the editor's interpolation
\* of the same layers at t, with the easing of the segment and the clamping
\* of the opacity.
C36_ExportSamplesAsEditor ==
    PaintedSamples = drawAt(layers, painted.time)

====
